---- MODULE Spec2Model ----
(***************************************************************************)
(* State-machine model of the lexical analyzer: the cursor scanner base    *)
(* (lexer/base_lexer.py), the C, C++ and Python scanners, and the          *)
(* post-tokenization syntax checker, driven as app.py drives them.         *)
(*                                                                         *)
(* Source text and lexeme values are sequences of one-character strings.   *)
(* The cursor offset pos is 0-based as in the code; source[pos+1] is the   *)
(* character under the cursor.  The empty string "" is what current() and  *)
(* peek() return at end of input.                                          *)
(***************************************************************************)
EXTENDS Integers, Sequences, FiniteSets, TLC

VARIABLES source, lang, pc, pos, line, col, tokens, errors,
          indent_stack, at_line_start, paren_depth, result, syntax_errors,
          detection, other

vars == <<source, lang, pc, pos, line, col, tokens, errors,
          indent_stack, at_line_start, paren_depth, result, syntax_errors,
          detection, other>>

\* ---------------------------------------------------------------- bounds
MaxLen == 3
MaxLenC == 4
MaxLines == 3
MaxSpin == 2
MaxLenB == 4
MaxFrags == 3
MaxHeaderLines == 2
MaxStmtLines == 3
MaxStatements == 2
MaxLenT == 2
MaxBody == 2
MaxNum == 5
MaxChars == 3
MaxLenO == 3
MaxIndentLines == 3
MaxDelim == 17
MaxLenU == 4
MaxLenZ == 4
MaxParts == 3

\* ------------------------------------------------------- character classes
Digits == {"0", "1", "2", "3", "4", "5", "6", "7", "8", "9"}
Lower == {"a", "b", "c", "d", "e", "f", "g", "h", "i", "j", "k", "l", "m",
          "n", "o", "p", "q", "r", "s", "t", "u", "v", "w", "x", "y", "z"}
Upper == {"A", "B", "C", "D", "E", "F", "G", "H", "I", "J", "K", "L", "M",
          "N", "O", "P", "Q", "R", "S", "T", "U", "V", "W", "X", "Y", "Z"}
HexDigits == Digits \cup {"a", "b", "c", "d", "e", "f", "A", "B", "C", "D", "E", "F"}
OctDigits == {"0", "1", "2", "3", "4", "5", "6", "7"}

isdigit(ch) == ch \in Digits
isalpha(ch) == ch \in Lower \cup Upper
isalnum(ch) == isalpha(ch) \/ isdigit(ch)

\* Python's  ch in "<chars>"  on a str: a substring test, so the empty
\* string returned at end of input is "in" every string.
InStr(ch, chars) == ch = "" \/ ch \in chars

Min(a, b) == IF a < b THEN a ELSE b
Max(a, b) == IF a > b THEN a ELSE b

\* ------------------------------------------------------------ token model
KEYWORD == "KEYWORD"
IDENTIFIER == "IDENTIFIER"
INTEGER == "INTEGER"
FLOAT == "FLOAT"
STRING_T == "STRING"
CHAR == "CHAR"
OPERATOR == "OPERATOR"
DELIMITER == "DELIMITER"
COMMENT == "COMMENT"
PREPROCESSOR == "PREPROCESSOR"
BOOLEAN_T == "BOOLEAN"
NONE_TOKEN == "NONE"
INDENT == "INDENT"
DEDENT == "DEDENT"
F_STRING == "F_STRING"
ERROR == "ERROR"

\* A diagnostic message: its language tag and its text (interpolated
\* parts of the text left out).  Tokens carry the empty message.
Msg(tag, text) == [tag |-> tag, text |-> text]
NoMsg == Msg("", "")
CTag == "[C Error]"
CppTag == "[C++ Error]"
PyTag == "[Python Error]"

make_token(ttype, value, ln, cl) ==
    [type |-> ttype, value |-> value, line |-> ln, column |-> cl, message |-> NoMsg]

make_error(message, value, ln, cl) ==
    [type |-> ERROR, value |-> value, line |-> ln, column |-> cl, message |-> message]

\* ------------------------------------------------------ cursor scanner base
\* A scanner object: the cursor, the two lists, the Python-specific state,
\* and the locals of the reader in progress (value, cnt, isf).  spin marks
\* a loop whose condition stays true at end of input; exc marks a raised
\* exception.
NewLexer ==
    [pos |-> 0, line |-> 1, col |-> 1, tokens |-> <<>>, errors |-> <<>>,
     indent_stack |-> <<0>>, at_line_start |-> TRUE, paren_depth |-> 0,
     value |-> <<>>, cnt |-> 0, isf |-> FALSE, spin |-> FALSE, exc |-> FALSE]

current(s) == IF s.pos < Len(source) THEN source[s.pos + 1] ELSE ""

peek(s, offset) == IF s.pos + offset < Len(source) THEN source[s.pos + offset + 1] ELSE ""

\* advance() with the column restarting at 0 after a newline
advance_col0(s) ==
    IF current(s) = "\n"
    THEN [s EXCEPT !.pos = @ + 1, !.line = @ + 1, !.col = 0]
    ELSE [s EXCEPT !.pos = @ + 1, !.col = @ + 1]

\* advance() that counts the line and leaves the column running on
advance_noreset(s) ==
    IF current(s) = "\n"
    THEN [s EXCEPT !.pos = @ + 1, !.line = @ + 1, !.col = @ + 1]
    ELSE [s EXCEPT !.pos = @ + 1, !.col = @ + 1]

advance(s) ==
    IF current(s) = "\n"
    THEN [s EXCEPT !.pos = @ + 1, !.line = @ + 1, !.col = 1]
    ELSE [s EXCEPT !.pos = @ + 1, !.col = @ + 1]

at_end(s) == s.pos >= Len(source)

add_token(s, ttype, value, ln, cl) ==
    [s EXCEPT !.tokens = Append(@, make_token(ttype, value, ln, cl))]

\* add_error() appending the record to the error list twice
add_error_twice(s, message, value, ln, cl) ==
    [s EXCEPT !.errors = @ \o <<make_error(message, value, ln, cl),
                                make_error(message, value, ln, cl)>>,
              !.tokens = Append(@, make_error(message, value, ln, cl))]

\* add_error() appending the record to the token stream only
add_error_stream_only(s, message, value, ln, cl) ==
    [s EXCEPT !.tokens = Append(@, make_error(message, value, ln, cl))]

add_error(s, message, value, ln, cl) ==
    [s EXCEPT !.errors = Append(@, make_error(message, value, ln, cl)),
              !.tokens = Append(@, make_error(message, value, ln, cl))]

\* value += self.advance()
Take(s) == [advance(s) EXCEPT !.value = IF current(s) = "" THEN @ ELSE Append(@, current(s))]

\* self.source[self.pos : self.pos + n]
Slice(s, n) == SubSeq(source, s.pos + 1, Min(s.pos + n, Len(source)))

RECURSIVE AdvanceN(_, _)
AdvanceN(s, n) == IF n = 0 THEN s ELSE AdvanceN(advance(s), n - 1)

\* while self.current().isdigit() ...: value += self.advance()
\* (any loop whose test is false on "", for a set of characters)
RECURSIVE TakeWhile(_, _)
TakeWhile(s, chars) ==
    IF current(s) \in chars THEN TakeWhile(Take(s), chars) ELSE s

\* while self.current() in "<chars>": value += self.advance()
\* The test is a substring test and holds at end of input, where advance()
\* consumes nothing: the loop is entered for good (spin).
RECURSIVE TakeWhileIn(_, _)
TakeWhileIn(s, chars) ==
    IF current(s) = "" THEN [s EXCEPT !.spin = TRUE]
    ELSE IF current(s) \in chars THEN TakeWhileIn(Take(s), chars)
    ELSE s

ValidEscapes == {"n", "r", "t", "a", "b", "f", "v", "0", "\\", "'", "\"", "?",
                 "x", "u", "U", "N", "1", "2", "3", "4", "5", "6", "7"}

EscMsgEof == Msg("", "Illegal escape sequence - unterminated escape at end of file")
EscMsgBad == Msg("", "Illegal escape sequence - unrecognized escape character")

\* _read_escape() taking every character after the backslash as recognized
read_escape_lenient(s, start_line, start_col) ==
    LET ch == current(s) IN
    IF ch = ""
    THEN [add_error(s, EscMsgEof, <<"\\">>, start_line, start_col)
            EXCEPT !.value = Append(@, "\\")]
    ELSE [advance(s) EXCEPT !.value = @ \o <<"\\", ch>>]

\* Called after the backslash has been consumed; the returned sequence is
\* appended to value by the caller (value += self._read_escape(...)).
read_escape(s, start_line, start_col) ==
    LET ch == current(s) IN
    IF ch = ""
    THEN [add_error(s, EscMsgEof, <<"\\">>, start_line, start_col)
            EXCEPT !.value = Append(@, "\\")]
    ELSE IF ch \notin ValidEscapes
    THEN [advance(add_error(s, EscMsgBad, <<"\\", ch>>, start_line, start_col))
            EXCEPT !.value = @ \o <<"\\", ch>>]
    ELSE [advance(s) EXCEPT !.value = @ \o <<"\\", ch>>]

\* ------------------------------------------------------------------ C scanner
C_KEYWORDS == {
    <<"i", "f">>, <<"d", "o">>, <<"i", "n", "t">>, <<"f", "o", "r">>,
    <<"a", "u", "t", "o">>, <<"c", "a", "s", "e">>, <<"c", "h", "a", "r">>,
    <<"e", "l", "s", "e">>, <<"e", "n", "u", "m">>, <<"g", "o", "t", "o">>,
    <<"l", "o", "n", "g">>, <<"v", "o", "i", "d">>,
    <<"b", "r", "e", "a", "k">>, <<"c", "o", "n", "s", "t">>,
    <<"f", "l", "o", "a", "t">>, <<"s", "h", "o", "r", "t">>,
    <<"u", "n", "i", "o", "n">>, <<"w", "h", "i", "l", "e">>,
    <<"_", "B", "o", "o", "l">>,
    <<"d", "o", "u", "b", "l", "e">>, <<"e", "x", "t", "e", "r", "n">>,
    <<"i", "n", "l", "i", "n", "e">>, <<"r", "e", "t", "u", "r", "n">>,
    <<"s", "i", "g", "n", "e", "d">>, <<"s", "i", "z", "e", "o", "f">>,
    <<"s", "t", "a", "t", "i", "c">>, <<"s", "t", "r", "u", "c", "t">>,
    <<"s", "w", "i", "t", "c", "h">>,
    <<"d", "e", "f", "a", "u", "l", "t">>, <<"t", "y", "p", "e", "d", "e", "f">>,
    <<"_", "A", "t", "o", "m", "i", "c">>,
    <<"c", "o", "n", "t", "i", "n", "u", "e">>, <<"r", "e", "g", "i", "s", "t", "e", "r">>,
    <<"r", "e", "s", "t", "r", "i", "c", "t">>, <<"u", "n", "s", "i", "g", "n", "e", "d">>,
    <<"v", "o", "l", "a", "t", "i", "l", "e">>,
    <<"_", "A", "l", "i", "g", "n", "a", "s">>, <<"_", "A", "l", "i", "g", "n", "o", "f">>,
    <<"_", "C", "o", "m", "p", "l", "e", "x">>, <<"_", "G", "e", "n", "e", "r", "i", "c">>,
    <<"_", "I", "m", "a", "g", "i", "n", "a", "r", "y">>,
    <<"_", "N", "o", "r", "e", "t", "u", "r", "n">>,
    <<"_", "S", "t", "a", "t", "i", "c", "_", "a", "s", "s", "e", "r", "t">>,
    <<"_", "T", "h", "r", "e", "a", "d", "_", "l", "o", "c", "a", "l">> }

\* In table order: the scanner takes the first entry that matches.
C_OPERATORS == <<
    <<"<", "<", "=">>, <<">", ">", "=">>,
    <<"-", ">">>, <<"+", "+">>, <<"-", "-">>, <<"<", "<">>, <<">", ">">>,
    <<"<", "=">>, <<">", "=">>, <<"=", "=">>, <<"!", "=">>,
    <<"&", "&">>, <<"|", "|">>, <<"+", "=">>, <<"-", "=">>, <<"*", "=">>,
    <<"/", "=">>, <<"%", "=">>,
    <<"&", "=">>, <<"|", "=">>, <<"^", "=">>,
    <<"+">>, <<"-">>, <<"*">>, <<"/">>, <<"%">>, <<"=">>, <<"<">>, <<">">>,
    <<"&">>, <<"|">>, <<"^">>, <<"~">>, <<"!">>, <<".">> >>

C_DELIMITERS == {"(", ")", "{", "}", ";", ",", "[", "]", ":", "#"}

\* str.strip() over the whitespace characters of the model
Whitespace == {" ", "\t", "\r", "\n"}

RECURSIVE LStrip(_)
LStrip(v) == IF v # <<>> /\ Head(v) \in Whitespace THEN LStrip(Tail(v)) ELSE v

RECURSIVE RStrip(_)
RStrip(v) ==
    IF v # <<>> /\ v[Len(v)] \in Whitespace THEN RStrip(SubSeq(v, 1, Len(v) - 1)) ELSE v

Strip(v) == RStrip(LStrip(v))

\* the operator loop walking the table from its end: the last entry that
\* matches
RECURSIVE FirstMatch_from_end(_, _, _)
FirstMatch_from_end(s, table, i) ==
    IF i > Len(table) THEN 0
    ELSE LET j == Len(table) + 1 - i IN
         IF Slice(s, Len(table[j])) = table[j] THEN j
         ELSE FirstMatch_from_end(s, table, i + 1)

\* index (1-based) of the first table entry that is a prefix of the
\* remaining input, 0 if none:  for op in TABLE: if source[pos:pos+len(op)] == op
RECURSIVE FirstMatch(_, _, _)
FirstMatch(s, table, i) ==
    IF i > Len(table) THEN 0
    ELSE IF Slice(s, Len(table[i])) = table[i] THEN i
    ELSE FirstMatch(s, table, i + 1)

RECURSIVE PreprocessorLoop(_)
PreprocessorLoop(s) ==
    IF at_end(s) \/ current(s) = "\n" THEN s
    ELSE IF current(s) = "\\" /\ peek(s, 1) = "\n"
    THEN PreprocessorLoop(advance(advance(s)))
    ELSE PreprocessorLoop(Take(s))

read_preprocessor(s, ln, cl) ==
    LET r == PreprocessorLoop([s EXCEPT !.value = <<>>]) IN
    add_token(r, PREPROCESSOR, Strip(r.value), ln, cl)

RECURSIVE read_line_comment(_)
read_line_comment(s) ==
    IF at_end(s) \/ current(s) = "\n" THEN s ELSE read_line_comment(advance(s))

RECURSIVE BlockCommentLoop(_, _, _)
BlockCommentLoop(s, ln, cl) ==
    IF at_end(s)
    THEN add_error(s, Msg(CTag, "Unterminated block comment - missing closing '*/'"),
                   <<"/", "*">>, ln, cl)
    ELSE IF current(s) = "*" /\ peek(s, 1) = "/" THEN advance(advance(s))
    ELSE BlockCommentLoop(advance(s), ln, cl)

read_block_comment(s, ln, cl) == BlockCommentLoop(advance(advance(s)), ln, cl)

\* The string loop closing the literal with a STRING token at end of file
RECURSIVE StringLoop_eof_token(_, _, _)
StringLoop_eof_token(s, ln, cl) ==
    IF at_end(s)
    THEN add_token(s, STRING_T, s.value, ln, cl)
    ELSE LET ch == current(s) IN
         IF ch = "\n"
         THEN add_error(s, Msg(CTag, "Unterminated string literal - newline inside string"),
                        s.value, ln, cl)
         ELSE IF ch = "\\"
         THEN LET a == advance(s) IN StringLoop_eof_token(read_escape(a, a.line, a.col), ln, cl)
         ELSE IF ch = "\""
         THEN LET t == Take(s) IN add_token(t, STRING_T, t.value, ln, cl)
         ELSE StringLoop_eof_token(Take(s), ln, cl)

RECURSIVE StringLoop(_, _, _)
StringLoop(s, ln, cl) ==
    IF at_end(s)
    THEN add_error(s, Msg(CTag, "Unterminated string literal - reached end of file"),
                   s.value, ln, cl)
    ELSE LET ch == current(s) IN
         IF ch = "\n"
         THEN add_error(s, Msg(CTag, "Unterminated string literal - newline inside string"),
                        s.value, ln, cl)
         ELSE IF ch = "\\"
         THEN LET a == advance(s) IN StringLoop(read_escape(a, a.line, a.col), ln, cl)
         ELSE IF ch = "\""
         THEN LET t == Take(s) IN add_token(t, STRING_T, t.value, ln, cl)
         ELSE StringLoop(Take(s), ln, cl)

read_string(s, ln, cl, prefix) ==
    StringLoop([advance(s) EXCEPT !.value = prefix \o <<"\"">>], ln, cl)

CharClose(s, ln, cl) ==
    LET t == Take(s) IN
    IF t.cnt = 0
    THEN add_error(t, Msg(CTag, "Empty character literal ''"), t.value, ln, cl)
    ELSE IF t.cnt > 1
    THEN add_error(t, Msg(CTag, "Multi-character character literal (implementation-defined behavior)"),
                   t.value, ln, cl)
    ELSE add_token(t, CHAR, t.value, ln, cl)

RECURSIVE CharLoop(_, _, _)
CharLoop(s, ln, cl) ==
    IF at_end(s)
    THEN add_error(s, Msg(CTag, "Unterminated character literal - reached end of file"),
                   s.value, ln, cl)
    ELSE LET ch == current(s) IN
         IF ch = "\n"
         THEN add_error(s, Msg(CTag, "Unterminated character literal - newline inside char"),
                        s.value, ln, cl)
         ELSE IF ch = "\\"
         THEN LET a == advance(s)
                  e == read_escape(a, a.line, a.col)
              IN CharLoop([e EXCEPT !.cnt = @ + 1], ln, cl)
         ELSE IF ch = "'"
         THEN CharClose(s, ln, cl)
         ELSE CharLoop([Take(s) EXCEPT !.cnt = @ + 1], ln, cl)

read_char(s, ln, cl) ==
    CharLoop([advance(s) EXCEPT !.value = <<"'">>, !.cnt = 0], ln, cl)

SuffixChars == {"u", "U", "l", "L", "f", "F"}

StartsWith0(v) == v # <<>> /\ v[1] = "0"

Has89(v) == \E i \in 1..Len(v) : v[i] \in {"8", "9"}

NumToken(s, ln, cl) == add_token(s, IF s.isf THEN FLOAT ELSE INTEGER, s.value, ln, cl)

\* Hexadecimal branch of CLexer._read_number, last part: the suffix loop
c_hex_suffix(e, ln, cl) == IF e.spin THEN e ELSE NumToken(e, ln, cl)

\* ... the binary exponent  p[+-]digits
c_hex_exponent(c, ln, cl) ==
    IF c.spin THEN c
    ELSE LET hasp == current(c) \in {"p", "P"}
             d1 == IF hasp THEN [Take(c) EXCEPT !.isf = TRUE] ELSE c
             d2 == IF hasp /\ current(d1) \in {"+", "-"} THEN Take(d1) ELSE d1
         IN c_hex_suffix(TakeWhileIn(IF hasp THEN TakeWhile(d2, Digits) ELSE d2, SuffixChars),
                         ln, cl)

\* ... the fraction after the hex digits
c_hex_fraction(b, ln, cl) ==
    IF b.spin THEN b
    ELSE LET dot == current(b) = "."
             c1 == IF dot THEN [Take(b) EXCEPT !.isf = TRUE] ELSE b
         IN IF dot /\ current(c1) = "."
            THEN add_error(c1, Msg(CTag, "Malformed numeric literal - multiple decimal points"),
                           c1.value, ln, cl)
            ELSE c_hex_exponent(IF dot THEN TakeWhileIn(c1, HexDigits \cup {"_"}) ELSE c1,
                                ln, cl)

\* ... the digits after 0x
c_hex_digits(a, ln, cl) ==
    IF ~InStr(current(a), HexDigits)
    THEN add_error(a, Msg(CTag, "Invalid hex literal - no digits after '0x'"), a.value, ln, cl)
    ELSE c_hex_fraction(TakeWhileIn(a, HexDigits \cup {"_"}), ln, cl)

\* Hexadecimal branch of CLexer._read_number
c_read_hex(s0, ln, cl) == c_hex_digits(Take(Take(s0)), ln, cl)

\* Binary branch of CLexer._read_number, last part: the suffix loop
c_binary_suffix(c, ln, cl) == IF c.spin THEN c ELSE add_token(c, INTEGER, c.value, ln, cl)

\* ... the digit loop
c_binary_loop(b, ln, cl) ==
    IF b.spin THEN b ELSE c_binary_suffix(TakeWhileIn(b, {"u", "U", "l", "L"}), ln, cl)

\* ... the digits after 0b
c_binary_digits(a, ln, cl) ==
    IF ~InStr(current(a), {"0", "1"})
    THEN add_error(a, Msg(CTag, "Invalid binary literal - no digits after '0b'"), a.value, ln, cl)
    ELSE c_binary_loop(TakeWhileIn(a, {"0", "1", "_"}), ln, cl)

\* Binary branch of CLexer._read_number
c_read_binary(s0, ln, cl) == c_binary_digits(Take(Take(s0)), ln, cl)

\* while self.current() in "uUlLfF": ... f/F forces float
RECURSIVE SuffixLoop(_)
SuffixLoop(s) ==
    IF current(s) = "" THEN [s EXCEPT !.spin = TRUE]
    ELSE IF current(s) \in SuffixChars
    THEN SuffixLoop([Take(s) EXCEPT !.isf = @ \/ current(s) \in {"f", "F"}])
    ELSE s

\* the last part of the decimal branch without the octal check
c_decimal_token_unchecked(d, ln, cl) ==
    IF d.spin THEN d ELSE NumToken(d, ln, cl)

\* Decimal branch of CLexer._read_number, last part: the octal check and
\* the token
c_decimal_token(d, ln, cl) ==
    IF d.spin THEN d
    ELSE IF ~d.isf /\ StartsWith0(d.value) /\ Len(d.value) > 1 /\ Has89(d.value)
    THEN add_error(d, Msg(CTag, "Invalid octal literal - digits 8 or 9 are not valid in octal"),
                   d.value, ln, cl)
    ELSE NumToken(d, ln, cl)

\* ... the exponent  e[+-]digits, then the suffix loop
c_decimal_exponent(b, ln, cl) ==
    LET hase == current(b) \in {"e", "E"}
        c1 == IF hase THEN [Take(b) EXCEPT !.isf = TRUE] ELSE b
        c2 == IF hase /\ current(c1) \in {"+", "-"} THEN Take(c1) ELSE c1
    IN IF hase /\ ~isdigit(current(c2))
       THEN add_error(c2, Msg(CTag, "Malformed float literal - expected digits after exponent"),
                      c2.value, ln, cl)
       ELSE c_decimal_token(SuffixLoop(IF hase THEN TakeWhile(c2, Digits) ELSE c2), ln, cl)

\* ... the decimal point and the fraction digits
c_decimal_fraction(a, ln, cl) ==
    LET dot == current(a) = "." /\ peek(a, 1) # "."
        b1 == IF dot THEN [Take(a) EXCEPT !.isf = TRUE] ELSE a
    IN IF dot /\ current(b1) = "." /\ isdigit(peek(b1, 1))
       THEN add_error(b1, Msg(CTag, "Malformed numeric literal - multiple decimal points"),
                      b1.value, ln, cl)
       ELSE c_decimal_exponent(IF dot THEN TakeWhile(b1, Digits) ELSE b1, ln, cl)

\* Decimal / float / octal branch of CLexer._read_number
c_read_decimal(s0, ln, cl) == c_decimal_fraction(TakeWhile(s0, Digits \cup {"_"}), ln, cl)

c_number_branch(s0, ln, cl) ==
    IF current(s0) = "0" /\ peek(s0, 1) \in {"x", "X"} THEN c_read_hex(s0, ln, cl)
    ELSE IF current(s0) = "0" /\ peek(s0, 1) \in {"b", "B"} THEN c_read_binary(s0, ln, cl)
    ELSE c_read_decimal(s0, ln, cl)

c_read_number(s, ln, cl) == c_number_branch([s EXCEPT !.value = <<>>, !.isf = FALSE], ln, cl)

\* while not at_end and (isalnum or "_"): value += advance
RECURSIVE IdentLoop(_)
IdentLoop(s) ==
    IF ~at_end(s) /\ (isalnum(current(s)) \/ current(s) = "_") THEN IdentLoop(Take(s)) ELSE s

\* c_read_identifier with every word an IDENTIFIER
c_read_identifier_plain(s, ln, cl) ==
    LET r == IdentLoop([s EXCEPT !.value = <<>>]) IN
    add_token(r, IDENTIFIER, r.value, ln, cl)

c_read_identifier(s, ln, cl) ==
    LET r == IdentLoop([s EXCEPT !.value = <<>>]) IN
    add_token(r, IF r.value \in C_KEYWORDS THEN KEYWORD ELSE IDENTIFIER, r.value, ln, cl)

\* The operator, delimiter and unknown-character rules shared by the C and
\* C++ dispatchers (table and message tag differ).
OperatorOrRest(s, table, tag) ==
    LET ch == current(s)
        ln == s.line
        cl == s.col
        i == FirstMatch(s, table, 1)
    IN IF i > 0 THEN add_token(AdvanceN(s, Len(table[i])), OPERATOR, table[i], ln, cl)
       ELSE IF ch \in C_DELIMITERS THEN add_token(advance(s), DELIMITER, <<ch>>, ln, cl)
       ELSE add_error(advance(s), Msg(tag, "Unknown character"), <<ch>>, ln, cl)

c_scan_token(s) ==
    LET ch == current(s)
        ln == s.line
        cl == s.col
    IN IF ch \in {" ", "\t", "\r", "\n"} THEN advance(s)
       ELSE IF ch = "#" THEN read_preprocessor(s, ln, cl)
       ELSE IF ch = "/" /\ peek(s, 1) = "/" THEN read_line_comment(s)
       ELSE IF ch = "/" /\ peek(s, 1) = "*" THEN read_block_comment(s, ln, cl)
       ELSE IF ch = "\"" THEN read_string(s, ln, cl, <<>>)
       ELSE IF ch \in {"L", "u", "U"} /\ peek(s, 1) = "\"" THEN read_string(advance(s), ln, cl, <<ch>>)
       ELSE IF ch = "u" /\ peek(s, 1) = "8" /\ peek(s, 2) = "\""
       THEN read_string(advance(advance(s)), ln, cl, <<"u", "8">>)
       ELSE IF ch \in {"L", "u", "U"} /\ peek(s, 1) = "'" THEN read_char(advance(s), ln, cl)
       ELSE IF ch = "'" THEN read_char(s, ln, cl)
       ELSE IF isdigit(ch) \/ (ch = "." /\ isdigit(peek(s, 1))) THEN c_read_number(s, ln, cl)
       ELSE IF isalpha(ch) \/ ch = "_" THEN c_read_identifier(s, ln, cl)
       ELSE OperatorOrRest(s, C_OPERATORS, CTag)

\* ---------------------------------------------------------------- C++ scanner
CPP_EXTRA_KEYWORDS == {
    <<"n", "e", "w">>, <<"t", "r", "y">>, <<"a", "u", "t", "o">>,
    <<"b", "o", "o", "l">>, <<"t", "h", "i", "s">>, <<"t", "r", "u", "e">>,
    <<"c", "a", "t", "c", "h">>, <<"c", "l", "a", "s", "s">>,
    <<"f", "a", "l", "s", "e">>, <<"f", "i", "n", "a", "l">>,
    <<"t", "h", "r", "o", "w">>, <<"u", "s", "i", "n", "g">>,
    <<"d", "e", "l", "e", "t", "e">>, <<"e", "x", "p", "o", "r", "t">>,
    <<"f", "r", "i", "e", "n", "d">>, <<"i", "m", "p", "o", "r", "t">>,
    <<"i", "n", "l", "i", "n", "e">>, <<"m", "o", "d", "u", "l", "e">>,
    <<"p", "u", "b", "l", "i", "c">>, <<"t", "y", "p", "e", "i", "d">>,
    <<"a", "l", "i", "g", "n", "a", "s">>, <<"a", "l", "i", "g", "n", "o", "f">>,
    <<"c", "h", "a", "r", "8", "_", "t">>, <<"c", "o", "n", "c", "e", "p", "t">>,
    <<"m", "u", "t", "a", "b", "l", "e">>, <<"n", "u", "l", "l", "p", "t", "r">>,
    <<"p", "r", "i", "v", "a", "t", "e">>, <<"v", "i", "r", "t", "u", "a", "l">>,
    <<"w", "c", "h", "a", "r", "_", "t">>, <<"c", "h", "a", "r", "1", "6", "_", "t">>,
    <<"c", "h", "a", "r", "3", "2", "_", "t">>,
    <<"c", "o", "_", "a", "w", "a", "i", "t">>,
    <<"c", "o", "_", "y", "i", "e", "l", "d">>,
    <<"d", "e", "c", "l", "t", "y", "p", "e">>,
    <<"e", "x", "p", "l", "i", "c", "i", "t">>,
    <<"n", "o", "e", "x", "c", "e", "p", "t">>,
    <<"o", "p", "e", "r", "a", "t", "o", "r">>,
    <<"o", "v", "e", "r", "r", "i", "d", "e">>,
    <<"r", "e", "q", "u", "i", "r", "e", "s">>,
    <<"t", "e", "m", "p", "l", "a", "t", "e">>,
    <<"t", "y", "p", "e", "n", "a", "m", "e">>,
    <<"v", "o", "l", "a", "t", "i", "l", "e">>,
    <<"c", "o", "_", "r", "e", "t", "u", "r", "n">>,
    <<"c", "o", "n", "s", "t", "e", "v", "a", "l">>,
    <<"c", "o", "n", "s", "t", "e", "x", "p", "r">>,
    <<"c", "o", "n", "s", "t", "i", "n", "i", "t">>,
    <<"n", "a", "m", "e", "s", "p", "a", "c", "e">>,
    <<"p", "r", "o", "t", "e", "c", "t", "e", "d">>,
    <<"c", "o", "n", "s", "t", "_", "c", "a", "s", "t">>,
    <<"s", "t", "a", "t", "i", "c", "_", "c", "a", "s", "t">>,
    <<"d", "y", "n", "a", "m", "i", "c", "_", "c", "a", "s", "t">>,
    <<"t", "h", "r", "e", "a", "d", "_", "l", "o", "c", "a", "l">>,
    <<"s", "t", "a", "t", "i", "c", "_", "a", "s", "s", "e", "r", "t">>,
    <<"r", "e", "i", "n", "t", "e", "r", "p", "r", "e", "t", "_", "c", "a", "s", "t">> }

CPP_ALL_KEYWORDS == C_KEYWORDS \cup CPP_EXTRA_KEYWORDS

CPP_EXTRA_OPS == << <<"-", ">", "*">>, <<".", "*">>, <<":", ":">>, <<".", ".", ".">> >>

ALL_CPP_OPERATORS == CPP_EXTRA_OPS \o C_OPERATORS

RawPrefixes == << <<"L", "R">>, <<"u", "R">>, <<"U", "R">>, <<"u", "8", "R">> >>

RawDelimMax == 16

read_identifier_cpp(s, ln, cl) ==
    LET r == IdentLoop([s EXCEPT !.value = <<>>])
        ttype == IF r.value \in {<<"t", "r", "u", "e">>, <<"f", "a", "l", "s", "e">>} THEN BOOLEAN_T
                 ELSE IF r.value \in CPP_ALL_KEYWORDS THEN KEYWORD
                 ELSE IDENTIFIER
    IN add_token(r, ttype, r.value, ln, cl)

\* the delimiter loop testing the length with > : one character more passes
RECURSIVE RawDelimLoop_one_more(_)
RawDelimLoop_one_more(s) ==
    IF ~at_end(s) /\ current(s) # "(" /\ current(s) # "\n"
    THEN IF Len(s.value) > RawDelimMax THEN [s EXCEPT !.cnt = 1] ELSE RawDelimLoop_one_more(Take(s))
    ELSE s

\* The delimiter loop of _read_raw_string; value holds the delimiter and
\* cnt = 1 reports that the loop found it too long.
RECURSIVE RawDelimLoop(_)
RawDelimLoop(s) ==
    IF ~at_end(s) /\ current(s) # "(" /\ current(s) # "\n"
    THEN IF Len(s.value) >= RawDelimMax THEN [s EXCEPT !.cnt = 1] ELSE RawDelimLoop(Take(s))
    ELSE s

\* The body loop of _read_raw_string; value holds content.
RECURSIVE RawBodyLoop(_, _, _, _)
RawBodyLoop(s, closing, ln, cl) ==
    IF at_end(s)
    THEN add_error(s, Msg(CppTag, "Unterminated raw string literal"), s.value, ln, cl)
    ELSE IF Slice(s, Len(closing)) = closing
    THEN add_token(AdvanceN(s, Len(closing)), STRING_T, s.value \o closing, ln, cl)
    ELSE RawBodyLoop(Take(s), closing, ln, cl)

read_raw_string(s, ln, cl, prefix) ==
    LET a == advance(advance(s))
        d == RawDelimLoop([a EXCEPT !.value = <<>>, !.cnt = 0])
        delimiter == d.value
    IN IF d.cnt = 1
       THEN add_error(d, Msg(CppTag, "Raw string delimiter too long (max 16 characters)"),
                      prefix \o <<"\"">> \o delimiter, ln, cl)
       ELSE IF current(d) # "("
       THEN add_error(d, Msg(CppTag, "Malformed raw string literal - expected '(' after delimiter"),
                      prefix \o <<"\"">> \o delimiter, ln, cl)
       ELSE RawBodyLoop([advance(d) EXCEPT !.value = prefix \o <<"\"">> \o delimiter \o <<"(">>],
                        <<")">> \o delimiter \o <<"\"">>, ln, cl)

\* tok["message"].replace("[C Error]", "[C++ Error]") on an ERROR record
Relabel(tok) ==
    IF tok.type = ERROR /\ tok.message.tag = CTag
    THEN [tok EXCEPT !.message = Msg(CppTag, tok.message.text)]
    ELSE tok

\* the records at the last n places of a list relabelled
RelabelLast(list, n) ==
    [i \in 1..Len(list) |-> IF i > Len(list) - n THEN Relabel(list[i]) ELSE list[i]]

\* for op in the first places of a list that are ERROR records
ErrorsAmongLast(list, n) ==
    Cardinality({i \in 1..Len(list) : i > Len(list) - n /\ list[i].type = ERROR})

\* CppLexer._read_number without its last part
cpp_udl_suffix_none(q) == q

\* CppLexer._read_number, last part: a user-defined-literal suffix is
\* appended to the value of the last stream entry
cpp_udl_suffix(q) ==
    IF q.spin THEN q
    ELSE LET n == Len(q.tokens) IN
         IF n > 0 /\ q.tokens[n].type \in {INTEGER, FLOAT, STRING_T}
            /\ ~at_end(q) /\ (current(q) = "_" \/ isalpha(current(q)))
         THEN LET u == IdentLoop([q EXCEPT !.value = <<>>]) IN
              [u EXCEPT !.tokens[n].value = @ \o u.value]
         ELSE q

\* ... the relabelling of the ERROR records among the last three stream
\* entries (the same objects sit in the error list)
cpp_relabel(r) ==
    IF r.spin THEN r
    ELSE [r EXCEPT !.tokens = RelabelLast(@, 3),
                   !.errors = RelabelLast(@, ErrorsAmongLast(r.tokens, 3))]

\* CppLexer._read_number: the C reader, the relabelling, the suffix
cpp_read_number(s, ln, cl) == cpp_udl_suffix(cpp_relabel(c_read_number(s, ln, cl)))

RawPrefixAt(s, i) ==
    /\ Slice(s, Len(RawPrefixes[i])) = RawPrefixes[i]
    /\ s.pos + Len(RawPrefixes[i]) < Len(source)
    /\ source[s.pos + Len(RawPrefixes[i]) + 1] = "\""

cpp_scan_token(s) ==
    LET ch == current(s)
        ln == s.line
        cl == s.col
        raw == {i \in 1..Len(RawPrefixes) : RawPrefixAt(s, i)}
    IN IF ch \in {" ", "\t", "\r", "\n"} THEN advance(s)
       ELSE IF ch = "#" THEN read_preprocessor(s, ln, cl)
       ELSE IF ch = "/" /\ peek(s, 1) = "/" THEN read_line_comment(s)
       ELSE IF ch = "/" /\ peek(s, 1) = "*" THEN read_block_comment(s, ln, cl)
       ELSE IF ch = "R" /\ peek(s, 1) = "\"" THEN read_raw_string(s, ln, cl, <<"R">>)
       ELSE IF raw # {}
       THEN LET i == CHOOSE j \in raw : \A k \in raw : j <= k IN
            read_raw_string(AdvanceN(s, Len(RawPrefixes[i])), ln, cl, RawPrefixes[i])
       ELSE IF ch \in {"L", "u", "U"} /\ peek(s, 1) = "\"" THEN read_string(advance(s), ln, cl, <<ch>>)
       ELSE IF ch = "u" /\ peek(s, 1) = "8" /\ peek(s, 2) = "\""
       THEN read_string(advance(advance(s)), ln, cl, <<"u", "8">>)
       ELSE IF ch \in {"L", "u", "U"} /\ peek(s, 1) = "'" THEN read_char(advance(s), ln, cl)
       ELSE IF ch = "\"" THEN read_string(s, ln, cl, <<>>)
       ELSE IF ch = "'" THEN read_char(s, ln, cl)
       ELSE IF isdigit(ch) \/ (ch = "." /\ isdigit(peek(s, 1))) THEN cpp_read_number(s, ln, cl)
       ELSE IF isalpha(ch) \/ ch = "_" THEN read_identifier_cpp(s, ln, cl)
       ELSE OperatorOrRest(s, ALL_CPP_OPERATORS, CppTag)

\* ------------------------------------------------------------- Python scanner
PY_KEYWORDS == {
    <<"a", "s">>, <<"i", "f">>, <<"i", "n">>, <<"i", "s">>, <<"o", "r">>,
    <<"a", "n", "d">>, <<"d", "e", "f">>, <<"d", "e", "l">>, <<"f", "o", "r">>,
    <<"n", "o", "t">>, <<"t", "r", "y">>, <<"N", "o", "n", "e">>,
    <<"T", "r", "u", "e">>, <<"e", "l", "i", "f">>, <<"e", "l", "s", "e">>,
    <<"f", "r", "o", "m">>, <<"p", "a", "s", "s">>, <<"w", "i", "t", "h">>,
    <<"F", "a", "l", "s", "e">>, <<"a", "s", "y", "n", "c">>,
    <<"a", "w", "a", "i", "t">>, <<"b", "r", "e", "a", "k">>,
    <<"c", "l", "a", "s", "s">>, <<"r", "a", "i", "s", "e">>,
    <<"w", "h", "i", "l", "e">>, <<"y", "i", "e", "l", "d">>,
    <<"a", "s", "s", "e", "r", "t">>, <<"e", "x", "c", "e", "p", "t">>,
    <<"g", "l", "o", "b", "a", "l">>, <<"i", "m", "p", "o", "r", "t">>,
    <<"l", "a", "m", "b", "d", "a">>, <<"r", "e", "t", "u", "r", "n">>,
    <<"f", "i", "n", "a", "l", "l", "y">>, <<"c", "o", "n", "t", "i", "n", "u", "e">>,
    <<"n", "o", "n", "l", "o", "c", "a", "l">> }

\* In table order: the scanner takes the first entry that matches.
PY_OPERATORS == <<
    <<"*", "*", "=">>, <<"/", "/", "=">>, <<"<", "<", "=">>, <<">", ">", "=">>,
    <<"-", ">">>, <<":", "=">>, <<"*", "*">>, <<"/", "/">>, <<"<", "<">>, <<">", ">">>,
    <<"<", "=">>, <<">", "=">>, <<"=", "=">>, <<"!", "=">>, <<"+", "=">>, <<"-", "=">>,
    <<"*", "=">>, <<"/", "=">>, <<"%", "=">>, <<"&", "=">>, <<"|", "=">>, <<"^", "=">>,
    <<"@", "=">>, <<"+">>, <<"-">>, <<"*">>, <<"/">>, <<"%">>, <<"=">>, <<"<">>,
    <<">">>, <<"&">>, <<"|">>, <<"^">>, <<"~">>, <<"!">>, <<".">>, <<"@">> >>

PY_DELIMITERS == {"(", ")", "{", "}", "[", "]", ";", ",", ":", "#", "\\"}

STRING_PREFIXES == {
    <<"B">>, <<"F">>, <<"R">>, <<"U">>, <<"b">>, <<"f">>, <<"r">>, <<"u">>,
    <<"B", "R">>, <<"B", "r">>, <<"F", "R">>, <<"F", "r">>, <<"R", "B">>, <<"R", "F">>,
    <<"R", "b">>, <<"R", "f">>, <<"b", "R">>, <<"b", "r">>, <<"f", "R">>, <<"f", "r">>,
    <<"r", "B">>, <<"r", "F">>, <<"r", "b">>, <<"r", "f">> }

UpperSeq == <<"A", "B", "C", "D", "E", "F", "G", "H", "I", "J", "K", "L", "M",
              "N", "O", "P", "Q", "R", "S", "T", "U", "V", "W", "X", "Y", "Z">>
LowerSeq == <<"a", "b", "c", "d", "e", "f", "g", "h", "i", "j", "k", "l", "m",
              "n", "o", "p", "q", "r", "s", "t", "u", "v", "w", "x", "y", "z">>

\* str.lower()
LowerCh(ch) ==
    IF ch \in Upper THEN LowerSeq[CHOOSE i \in 1..26 : UpperSeq[i] = ch] ELSE ch

ToLower(v) == [i \in 1..Len(v) |-> LowerCh(v[i])]

LoweredPrefixes == {ToLower(p) : p \in STRING_PREFIXES}

\* one round of the loop of _try_string_prefix, for a candidate length
PrefixAt(s, length) ==
    /\ ToLower(Slice(s, length)) \in LoweredPrefixes
    /\ s.pos + length < Len(source)
    /\ source[s.pos + length + 1] \in {"\"", "'"}

\* the value standing for None: no prefix and no quote here
NoPrefix == <<"">>

\* the prefix found (a sequence), or NoPrefix
try_string_prefix(s) ==
    IF PrefixAt(s, 3) THEN Slice(s, 3)
    ELSE IF PrefixAt(s, 2) THEN Slice(s, 2)
    ELSE IF PrefixAt(s, 1) THEN Slice(s, 1)
    ELSE IF current(s) \in {"\"", "'"} THEN <<>>
    ELSE NoPrefix

RECURSIVE PyStringLoop(_, _, _, _, _, _, _)
PyStringLoop(s, closing, triple, is_raw, is_fstring, ln, cl) ==
    IF at_end(s)
    THEN add_error(s, Msg(PyTag, IF triple
                                 THEN "Unterminated triple-quoted string literal - reached end of file"
                                 ELSE "Unterminated string literal - reached end of file"),
                   s.value, ln, cl)
    ELSE IF Slice(s, Len(closing)) = closing
    THEN add_token(AdvanceN(s, Len(closing)), IF is_fstring THEN F_STRING ELSE STRING_T,
                   s.value \o closing, ln, cl)
    ELSE IF ~triple /\ current(s) \in {"\n", "\r"}
    THEN add_error(s, Msg(PyTag, "Unterminated string literal (single-line string cannot span multiple lines)"),
                   s.value, ln, cl)
    ELSE IF current(s) = "\\" /\ ~is_raw
    THEN LET a == advance(s) IN
         PyStringLoop(read_escape(a, a.line, a.col), closing, triple, is_raw, is_fstring, ln, cl)
    ELSE PyStringLoop(Take(s), closing, triple, is_raw, is_fstring, ln, cl)

py_read_string(s0, ln, cl, prefix) ==
    LET s == AdvanceN(s0, Len(prefix))
        quote_char == current(s)
        triple == /\ s.pos + 2 < Len(source)
                  /\ source[s.pos + 2] = quote_char
                  /\ source[s.pos + 3] = quote_char
        closing == IF triple THEN <<quote_char, quote_char, quote_char>> ELSE <<quote_char>>
        is_raw == \E i \in 1..Len(prefix) : LowerCh(prefix[i]) = "r"
        is_fstring == \E i \in 1..Len(prefix) : LowerCh(prefix[i]) = "f"
    IN IF quote_char \notin {"\"", "'"}
       THEN add_error(s, Msg(PyTag, "Expected opening quote for string literal"), prefix, ln, cl)
       ELSE PyStringLoop([AdvanceN(s, Len(closing)) EXCEPT !.value = prefix \o closing],
                         closing, triple, is_raw, is_fstring, ln, cl)

\* the three radix branches of PythonLexer._read_number
py_read_radix(s0, digits, text, ln, cl) ==
    LET a == Take(Take(s0)) IN
    IF ~InStr(current(a), digits \cup {"_"})
    THEN add_error(a, Msg(PyTag, text), a.value, ln, cl)
    ELSE LET b == TakeWhileIn(a, digits \cup {"_"}) IN
         IF b.spin THEN b ELSE add_token(b, INTEGER, b.value, ln, cl)

\* value.replace('_', '')
RECURSIVE Clean(_)
Clean(v) ==
    IF v = <<>> THEN <<>>
    ELSE IF Head(v) = "_" THEN Clean(Tail(v))
    ELSE <<Head(v)>> \o Clean(Tail(v))

\* int() refuses a digit string longer than the interpreter's limit;
\* float() accepts every literal the decimal branch builds.
MaxStrDigits == 4300
ParseFails(v, is_float) == ~is_float /\ Len(Clean(v)) > MaxStrDigits

\* Decimal branch of PythonLexer._read_number, last part: the leading-zero
\* check, the overflow check and the token
py_decimal_token(d, is_complex, ln, cl) ==
    IF ~d.isf /\ ~is_complex /\ StartsWith0(d.value) /\ Len(d.value) > 1
       /\ isdigit(d.value[2])
    THEN add_error(d, Msg(PyTag, "Invalid integer literal - leading zeros are not allowed in Python 3"),
                   d.value, ln, cl)
    ELSE IF ~is_complex /\ ParseFails(d.value, d.isf)
    THEN add_error(d, Msg(PyTag, "Numeric overflow - constant value too large for internal representation"),
                   d.value, ln, cl)
    ELSE add_token(d, IF d.isf \/ is_complex THEN FLOAT ELSE INTEGER, d.value, ln, cl)

\* ... the complex suffix j / J
py_decimal_complex(c, ln, cl) ==
    py_decimal_token(IF current(c) \in {"j", "J"} THEN Take(c) ELSE c,
                     current(c) \in {"j", "J"}, ln, cl)

\* ... the exponent  e[+-]digits
py_decimal_exponent(b, ln, cl) ==
    LET hase == current(b) \in {"e", "E"}
        c1 == IF hase THEN [Take(b) EXCEPT !.isf = TRUE] ELSE b
        c2 == IF hase /\ current(c1) \in {"+", "-"} THEN Take(c1) ELSE c1
    IN IF hase /\ ~isdigit(current(c2))
       THEN add_error(c2, Msg(PyTag, "Malformed float literal - expected digits after exponent 'e'"),
                      c2.value, ln, cl)
       ELSE py_decimal_complex(IF hase THEN TakeWhile(c2, Digits \cup {"_"}) ELSE c2, ln, cl)

\* ... the decimal point and the fraction digits
py_decimal_fraction(a, ln, cl) ==
    py_decimal_exponent(IF current(a) = "." /\ peek(a, 1) # "."
                        THEN TakeWhile([Take(a) EXCEPT !.isf = TRUE], Digits \cup {"_"})
                        ELSE a,
                        ln, cl)

py_read_decimal(s0, ln, cl) == py_decimal_fraction(TakeWhile(s0, Digits \cup {"_"}), ln, cl)

py_number_branch(s0, ln, cl) ==
    IF current(s0) = "0" /\ peek(s0, 1) \in {"x", "X"}
    THEN py_read_radix(s0, HexDigits, "Invalid hexadecimal literal - no digits after '0x'", ln, cl)
    ELSE IF current(s0) = "0" /\ peek(s0, 1) \in {"b", "B"}
    THEN py_read_radix(s0, {"0", "1"}, "Invalid binary literal - no digits after '0b'", ln, cl)
    ELSE IF current(s0) = "0" /\ peek(s0, 1) \in {"o", "O"}
    THEN py_read_radix(s0, OctDigits, "Invalid octal literal - no digits after '0o'", ln, cl)
    ELSE py_read_decimal(s0, ln, cl)

py_read_number(s, ln, cl) == py_number_branch([s EXCEPT !.value = <<>>, !.isf = FALSE], ln, cl)

py_read_identifier(s, ln, cl) ==
    LET r == IdentLoop([s EXCEPT !.value = <<>>])
        ttype == IF r.value \in {<<"T", "r", "u", "e">>, <<"F", "a", "l", "s", "e">>} THEN BOOLEAN_T
                 ELSE IF r.value = <<"N", "o", "n", "e">> THEN NONE_TOKEN
                 ELSE IF r.value \in PY_KEYWORDS THEN KEYWORD
                 ELSE IDENTIFIER
    IN add_token(r, ttype, r.value, ln, cl)

\* the delimiter rule with the depth test of the closing bracket left out
py_delimiter_unclamped(s, ch, ln, cl) ==
    LET d == IF ch \in {"(", "[", "{"} THEN [s EXCEPT !.paren_depth = @ + 1]
             ELSE IF ch \in {")", "]", "}"} THEN [s EXCEPT !.paren_depth = @ - 1]
             ELSE s
    IN [advance(d) EXCEPT !.tokens = Append(@, make_token(DELIMITER, <<ch>>, ln, cl))]

\* the delimiter rule counting round brackets only
py_delimiter_round_only(s, ch, ln, cl) ==
    LET d == IF ch = "(" THEN [s EXCEPT !.paren_depth = @ + 1]
             ELSE IF ch = ")"
             THEN IF s.paren_depth > 0 THEN [s EXCEPT !.paren_depth = @ - 1]
                  ELSE add_error(s, Msg(PyTag, "Unmatched closing bracket"), <<ch>>, ln, cl)
             ELSE s
    IN add_token(advance(d), DELIMITER, <<ch>>, ln, cl)

\* the delimiter rule of PythonLexer._scan_token
py_delimiter(s, ch, ln, cl) ==
    LET d == IF ch \in {"(", "[", "{"} THEN [s EXCEPT !.paren_depth = @ + 1]
             ELSE IF ch \in {")", "]", "}"}
             THEN IF s.paren_depth > 0 THEN [s EXCEPT !.paren_depth = @ - 1]
                  ELSE add_error(s, Msg(PyTag, "Unmatched closing bracket"), <<ch>>, ln, cl)
             ELSE s
    IN add_token(advance(d), DELIMITER, <<ch>>, ln, cl)

py_scan_token(s) ==
    LET ch == current(s)
        ln == s.line
        cl == s.col
        pfx == try_string_prefix(s)
        i == FirstMatch(s, PY_OPERATORS, 1)
    IN IF ch \in {"\r", "\n"}
       THEN [advance(IF ch = "\r" /\ peek(s, 1) = "\n" THEN advance(s) ELSE s)
               EXCEPT !.at_line_start = TRUE]
       ELSE IF ch \in {" ", "\t"} THEN advance(s)
       ELSE IF ch = "\\" /\ peek(s, 1) = "\n" THEN advance(advance(s))
       ELSE IF ch = "#" THEN read_line_comment(s)
       ELSE IF pfx # NoPrefix THEN py_read_string(s, ln, cl, pfx)
       ELSE IF isdigit(ch) \/ (ch = "." /\ isdigit(peek(s, 1))) THEN py_read_number(s, ln, cl)
       ELSE IF isalpha(ch) \/ ch = "_" THEN py_read_identifier(s, ln, cl)
       ELSE IF i > 0 THEN add_token(AdvanceN(s, Len(PY_OPERATORS[i])), OPERATOR, PY_OPERATORS[i], ln, cl)
       ELSE IF ch \in PY_DELIMITERS THEN py_delimiter(s, ch, ln, cl)
       ELSE IF ch = "" THEN [advance(s) EXCEPT !.exc = TRUE]
       ELSE add_error(advance(s), Msg(PyTag, "Invalid character in source code"), <<ch>>, ln, cl)

\* while self.current() in (" ", "\t"): indent_col += 1 or 4 (cnt holds it)
RECURSIVE IndentLoop(_)
IndentLoop(s) ==
    IF current(s) \in {" ", "\t"}
    THEN IndentLoop([advance(s) EXCEPT !.cnt = @ + (IF current(s) = " " THEN 1 ELSE 4)])
    ELSE s

Top(stack) == stack[Len(stack)]
Pop(stack) == SubSeq(stack, 1, Len(stack) - 1)

\* the dedent loop as a single test: at most one level is taken off
DedentLoop_once(s, indent_col) ==
    IF s.indent_stack # <<>> /\ Top(s.indent_stack) > indent_col
    THEN add_token([s EXCEPT !.indent_stack = Pop(@)], DEDENT, <<>>, s.line, 1)
    ELSE s

\* while self._indent_stack and self._indent_stack[-1] > indent_col: pop, DEDENT
RECURSIVE DedentLoop(_, _)
DedentLoop(s, indent_col) ==
    IF s.indent_stack # <<>> /\ Top(s.indent_stack) > indent_col
    THEN DedentLoop(add_token([s EXCEPT !.indent_stack = Pop(@)], DEDENT, <<>>, s.line, 1),
                    indent_col)
    ELSE s

\* _handle_indentation pushing on  indent_col >= current_indent
handle_indentation_ge(s0) ==
    LET s == IndentLoop([s0 EXCEPT !.cnt = 0])
        indent_col == s.cnt
    IN IF current(s) \in {"\n", "\r", "#", ""} THEN s
       ELSE IF indent_col >= Top(s.indent_stack)
       THEN [s EXCEPT !.indent_stack = Append(@, indent_col),
                      !.tokens = Append(@, make_token(INDENT, <<>>, s.line, 1)),
                      !.at_line_start = FALSE]
       ELSE [DedentLoop(s, indent_col) EXCEPT !.at_line_start = FALSE]

\* _handle_indentation pushing a deeper level without an INDENT token
handle_indentation_quiet(s0) ==
    LET s == IndentLoop([s0 EXCEPT !.cnt = 0])
        indent_col == s.cnt
    IN IF current(s) \in {"\n", "\r", "#", ""} THEN s
       ELSE IF indent_col > Top(s.indent_stack)
       THEN [s EXCEPT !.indent_stack = Append(@, indent_col), !.at_line_start = FALSE]
       ELSE handle_indentation_ge(s0)

handle_indentation(s0) ==
    LET s == IndentLoop([s0 EXCEPT !.cnt = 0])
        indent_col == s.cnt
        current_indent == Top(s.indent_stack)
    IN IF current(s) \in {"\n", "\r", "#", ""} THEN s
       ELSE IF indent_col > current_indent
       THEN [add_token([s EXCEPT !.indent_stack = Append(@, indent_col)], INDENT, <<>>, s.line, 1)
               EXCEPT !.at_line_start = FALSE]
       ELSE IF indent_col < current_indent
       THEN LET d == DedentLoop(s, indent_col)
                e == IF d.indent_stack = <<>> \/ Top(d.indent_stack) # indent_col
                     THEN add_error(d, Msg(PyTag, "Indentation error - unindent does not match any outer indentation level"),
                                    <<>>, d.line, 1)
                     ELSE d
            IN [e EXCEPT !.at_line_start = FALSE]
       ELSE [s EXCEPT !.at_line_start = FALSE]

\* tokenize() returning without the trailing DEDENT loop
FinalDedentsNone(s) == s

\* the trailing loop of PythonLexer.tokenize
RECURSIVE FinalDedents(_)
FinalDedents(s) ==
    IF Len(s.indent_stack) > 1
    THEN FinalDedents(add_token([s EXCEPT !.indent_stack = Pop(@)], DEDENT, <<>>, s.line, s.col))
    ELSE s

\* ------------------------------------------------------------ the state machine
\* The scanner object as one record, and back.
Lexer ==
    [pos |-> pos, line |-> line, col |-> col, tokens |-> tokens, errors |-> errors,
     indent_stack |-> indent_stack, at_line_start |-> at_line_start,
     paren_depth |-> paren_depth,
     value |-> <<>>, cnt |-> 0, isf |-> FALSE, spin |-> FALSE, exc |-> FALSE]

Becomes(s) ==
    /\ pos' = s.pos
    /\ line' = s.line
    /\ col' = s.col
    /\ tokens' = s.tokens
    /\ errors' = s.errors
    /\ indent_stack' = s.indent_stack
    /\ at_line_start' = s.at_line_start
    /\ paren_depth' = s.paren_depth

AtEnd == pos >= Len(source)

\* where control goes after a _scan_token call
AfterScan(s) == IF s.spin THEN "spin" ELSE IF s.exc THEN "raised" ELSE "loop"

\* no detector call made: the language is given
NoDetection == [language |-> "", confidence |-> "user-specified",
                scores |-> [cpp |-> 0, c |-> 0, python |-> 0]]

\* A tokenize() invocation on its own scanner instance: the input and the
\* language it was constructed with, its place in tokenize(), the fields of
\* the object set by __init__ and by PythonLexer.tokenize, its result.
NewInstance(src, lg) ==
    [source |-> src, lang |-> lg, pc |-> "loop",
     pos |-> NewLexer.pos, line |-> NewLexer.line, col |-> NewLexer.col,
     tokens |-> NewLexer.tokens, errors |-> NewLexer.errors,
     indent_stack |-> NewLexer.indent_stack, at_line_start |-> NewLexer.at_line_start,
     paren_depth |-> NewLexer.paren_depth,
     result |-> [tokens |-> <<>>, errors |-> <<>>]]

\* no second invocation
NoInstance == NewInstance(<<>>, "")

SeqsUpTo(S, n) == UNION {[1..k -> S] : k \in 0..n}

InitWith(sources, langs) ==
    /\ source \in sources
    /\ lang \in langs
    /\ pc = "loop"
    /\ pos = NewLexer.pos
    /\ line = NewLexer.line
    /\ col = NewLexer.col
    /\ tokens = NewLexer.tokens
    /\ errors = NewLexer.errors
    /\ indent_stack = NewLexer.indent_stack
    /\ at_line_start = NewLexer.at_line_start
    /\ paren_depth = NewLexer.paren_depth
    /\ result = [tokens |-> <<>>, errors |-> <<>>]
    /\ syntax_errors = <<>>
    /\ detection = NoDetection
    /\ other = NoInstance

\* One iteration of  while not self.at_end(): self._scan_token()  (C)
CScanToken ==
    /\ lang = "c"
    /\ pc = "loop"
    /\ ~AtEnd
    /\ LET s == c_scan_token(Lexer) IN Becomes(s) /\ pc' = AfterScan(s)
    /\ UNCHANGED <<source, lang, detection, other, result, syntax_errors>>

\* The same loop of CLexer.tokenize with CppLexer._scan_token
CppScanToken ==
    /\ lang = "cpp"
    /\ pc = "loop"
    /\ ~AtEnd
    /\ LET s == cpp_scan_token(Lexer) IN Becomes(s) /\ pc' = AfterScan(s)
    /\ UNCHANGED <<source, lang, detection, other, result, syntax_errors>>

\* PythonLexer.tokenize: the indentation call at the head of an iteration
PyHandleIndentation ==
    /\ lang = "python"
    /\ pc = "loop"
    /\ ~AtEnd
    /\ at_line_start /\ paren_depth = 0
    /\ Becomes(handle_indentation(Lexer))
    /\ pc' = "scan"
    /\ UNCHANGED <<source, lang, detection, other, result, syntax_errors>>

\* PythonLexer.tokenize: the _scan_token call of an iteration
PyScanToken ==
    /\ lang = "python"
    /\ \/ pc = "scan"
       \/ pc = "loop" /\ ~AtEnd /\ ~(at_line_start /\ paren_depth = 0)
    /\ LET s == py_scan_token(Lexer) IN Becomes(s) /\ pc' = AfterScan(s)
    /\ UNCHANGED <<source, lang, detection, other, result, syntax_errors>>

\* One more iteration of a reader loop  while self.current() in "<chars>"
\* at end of input: advance() moves the cursor, value stays as it is.
LoopAtEnd ==
    /\ pc = "spin"
    /\ pos < Len(source) + MaxSpin
    /\ Becomes(advance(Lexer))
    /\ UNCHANGED <<source, lang, detection, other, pc, result, syntax_errors>>

NotComment(t) == t.type # COMMENT

\* CLexer.tokenize leaving its loop and returning
CReturn ==
    /\ lang \in {"c", "cpp"}
    /\ pc = "loop"
    /\ AtEnd
    /\ result' = [tokens |-> SelectSeq(tokens, NotComment), errors |-> errors]
    /\ pc' = "done"
    /\ UNCHANGED <<source, lang, detection, other, pos, line, col, tokens, errors,
                   indent_stack, at_line_start, paren_depth, syntax_errors>>

\* PythonLexer.tokenize leaving its loop: the remaining DEDENTs, the return
PyReturn ==
    /\ lang = "python"
    /\ pc = "loop"
    /\ AtEnd
    /\ LET s == FinalDedents(Lexer) IN
         /\ Becomes(s)
         /\ result' = [tokens |-> SelectSeq(s.tokens, NotComment), errors |-> s.errors]
    /\ pc' = "done"
    /\ UNCHANGED <<source, lang, detection, other, syntax_errors>>

\* ------------------------------------------------------------- syntax checker
STMT_END_TYPES == {"IDENTIFIER", "INTEGER", "FLOAT", "STRING", "CHAR", "BOOLEAN", "NONE"}

STMT_END_DELIMS == {<<")">>, <<"]">>}

STMT_END_OPS == {<<"+", "+">>, <<"-", "-">>}

NO_SEMI_LAST_KW == {
    <<"d", "o">>, <<"i", "f">>, <<"f", "o", "r">>, <<"t", "r", "y">>,
    <<"e", "l", "s", "e">>, <<"e", "n", "u", "m">>, <<"c", "a", "t", "c", "h">>,
    <<"c", "l", "a", "s", "s">>, <<"u", "n", "i", "o", "n">>,
    <<"w", "h", "i", "l", "e">>, <<"p", "u", "b", "l", "i", "c">>,
    <<"s", "t", "r", "u", "c", "t">>, <<"s", "w", "i", "t", "c", "h">>,
    <<"d", "e", "f", "a", "u", "l", "t">>, <<"f", "i", "n", "a", "l", "l", "y">>,
    <<"p", "r", "i", "v", "a", "t", "e">>,
    <<"n", "a", "m", "e", "s", "p", "a", "c", "e">>,
    <<"p", "r", "o", "t", "e", "c", "t", "e", "d">> }

NEEDS_SEMI_KW == {
    <<"g", "o", "t", "o">>, <<"b", "r", "e", "a", "k">>, <<"t", "h", "r", "o", "w">>,
    <<"d", "e", "l", "e", "t", "e">>, <<"r", "e", "t", "u", "r", "n">>,
    <<"c", "o", "n", "t", "i", "n", "u", "e">> }

PY_COMPOUND_KW == {
    <<"i", "f">>, <<"d", "e", "f">>, <<"f", "o", "r">>, <<"t", "r", "y">>,
    <<"e", "l", "i", "f">>, <<"e", "l", "s", "e">>, <<"w", "i", "t", "h">>,
    <<"a", "s", "y", "n", "c">>, <<"c", "l", "a", "s", "s">>,
    <<"w", "h", "i", "l", "e">>, <<"e", "x", "c", "e", "p", "t">>,
    <<"f", "i", "n", "a", "l", "l", "y">> }

openers == {<<"(">>, <<"[">>, <<"{">>}
closers == {<<")">>, <<"]">>, <<"}">>}

\* pairs with the partners of ) and ] exchanged
pairs_crossed(v) == IF v = <<")">> THEN <<"[">> ELSE IF v = <<"]">> THEN <<"(">> ELSE <<"{">>

\* pairs[v]
pairs(v) == IF v = <<")">> THEN <<"(">> ELSE IF v = <<"]">> THEN <<"[">> ELSE <<"{">>

Unclosed(stack, tag) ==
    [j \in 1..Len(stack) |->
        make_error(Msg(tag, "Unclosed - missing matching closing bracket"),
                   stack[j].ch, stack[j].line, stack[j].col)]

\* Pass 1 leaving the stack as it is when the closer does not match its top
RECURSIVE BracketMatching_no_recovery(_, _, _, _, _)
BracketMatching_no_recovery(toks, i, stack, errs, tag) ==
    IF i > Len(toks) THEN errs \o Unclosed(stack, tag)
    ELSE LET tok == toks[i]
             v == tok.value
         IN IF tok.type = ERROR \/ tok.type # DELIMITER
            THEN BracketMatching_no_recovery(toks, i + 1, stack, errs, tag)
            ELSE IF v \in openers
            THEN BracketMatching_no_recovery(toks, i + 1,
                                 Append(stack, [ch |-> v, line |-> tok.line, col |-> tok.column]),
                                 errs, tag)
            ELSE IF v \in closers
            THEN IF stack = <<>>
                 THEN BracketMatching_no_recovery(toks, i + 1, stack,
                          Append(errs, make_error(Msg(tag, "Unexpected - no matching"),
                                                  v, tok.line, tok.column)), tag)
                 ELSE IF Top(stack).ch # pairs(v)
                 THEN BracketMatching_no_recovery(toks, i + 1, stack,
                          Append(errs, make_error(Msg(tag, "Mismatched bracket"),
                                                  v, tok.line, tok.column)), tag)
                 ELSE BracketMatching_no_recovery(toks, i + 1, Pop(stack), errs, tag)
            ELSE BracketMatching_no_recovery(toks, i + 1, stack, errs, tag)

\* Pass 1 of both checkers: the bracket stack run over the stream from
\* token i on, then one error for each entry left on the stack.
RECURSIVE BracketMatching(_, _, _, _, _)
BracketMatching(toks, i, stack, errs, tag) ==
    IF i > Len(toks) THEN errs \o Unclosed(stack, tag)
    ELSE LET tok == toks[i]
             v == tok.value
         IN IF tok.type = ERROR \/ tok.type # DELIMITER
            THEN BracketMatching(toks, i + 1, stack, errs, tag)
            ELSE IF v \in openers
            THEN BracketMatching(toks, i + 1,
                                 Append(stack, [ch |-> v, line |-> tok.line, col |-> tok.column]),
                                 errs, tag)
            ELSE IF v \in closers
            THEN IF stack = <<>>
                 THEN BracketMatching(toks, i + 1, stack,
                          Append(errs, make_error(Msg(tag, "Unexpected - no matching"),
                                                  v, tok.line, tok.column)), tag)
                 ELSE IF Top(stack).ch # pairs(v)
                 THEN BracketMatching(toks, i + 1, Pop(stack),
                          Append(errs, make_error(Msg(tag, "Mismatched bracket"),
                                                  v, tok.line, tok.column)), tag)
                 ELSE BracketMatching(toks, i + 1, Pop(stack), errs, tag)
            ELSE BracketMatching(toks, i + 1, stack, errs, tag)

NotError(t) == t.type # ERROR

\* lines_map[ln]: the non-ERROR tokens of a line, in stream order
RECURSIVE LineToks(_, _)
LineToks(toks, ln) ==
    IF toks = <<>> THEN <<>>
    ELSE IF Head(toks).type # ERROR /\ Head(toks).line = ln
    THEN <<Head(toks)>> \o LineToks(Tail(toks), ln)
    ELSE LineToks(Tail(toks), ln)

\* sorted(lines_map.keys())
RECURSIVE SortedSeq(_)
SortedSeq(S) ==
    IF S = {} THEN <<>>
    ELSE LET m == CHOOSE x \in S : \A y \in S : x <= y IN <<m>> \o SortedSeq(S \ {m})

sorted_lines(toks) == SortedSeq({toks[i].line : i \in {j \in 1..Len(toks) : toks[j].type # ERROR}})

\* the braces of one line applied to the running depth
RECURSIVE BraceRun(_, _)
BraceRun(toks, depth) ==
    IF toks = <<>> THEN depth
    ELSE IF Head(toks).type = DELIMITER /\ Head(toks).value = <<"{">>
    THEN BraceRun(Tail(toks), depth + 1)
    ELSE IF Head(toks).type = DELIMITER /\ Head(toks).value = <<"}">>
    THEN BraceRun(Tail(toks), Max(0, depth - 1))
    ELSE BraceRun(Tail(toks), depth)

\* brace_by_line[lines[k]]: the depth entering the k-th line
RECURSIVE brace_by_line(_, _, _)
brace_by_line(toks, lines, k) ==
    IF k = 1 THEN 0
    ELSE BraceRun(LineToks(toks, lines[k - 1]), brace_by_line(toks, lines, k - 1))

\* first_kw: the value of the first KEYWORD token of the line, <<>> for None
RECURSIVE first_kw(_)
first_kw(toks) ==
    IF toks = <<>> THEN <<>>
    ELSE IF Head(toks).type = KEYWORD THEN Head(toks).value
    ELSE first_kw(Tail(toks))

needs_semi(toks) ==
    LET last == toks[Len(toks)] IN
    IF last.type \in STMT_END_TYPES THEN TRUE
    ELSE IF last.type = DELIMITER /\ last.value \in STMT_END_DELIMS
    THEN first_kw(toks) \notin NO_SEMI_LAST_KW
    ELSE IF last.type = OPERATOR /\ last.value \in STMT_END_OPS THEN TRUE
    ELSE last.type = KEYWORD /\ last.value \in NEEDS_SEMI_KW

\* SemicolonMissing with lines at file scope checked as well
SemicolonMissing_any_depth(toks, depth) ==
    LET last == toks[Len(toks)] IN
    /\ toks # <<>>
    /\ toks[1].type # PREPROCESSOR
    /\ ~(last.type = DELIMITER /\ last.value \in {<<";">>, <<"{">>, <<"}">>, <<",">>, <<":">>})
    /\ ~(last.type = KEYWORD /\ last.value \in NO_SEMI_LAST_KW)
    /\ ~(last.type = OPERATOR /\ last.value \notin STMT_END_OPS)
    /\ needs_semi(toks)
    /\ depth >= 0

\* the body of the per-line loop of pass 2: does the line get an error
SemicolonMissing(toks, depth) ==
    LET last == toks[Len(toks)] IN
    /\ toks # <<>>
    /\ toks[1].type # PREPROCESSOR
    /\ ~(last.type = DELIMITER /\ last.value \in {<<";">>, <<"{">>, <<"}">>, <<",">>, <<":">>})
    /\ ~(last.type = KEYWORD /\ last.value \in NO_SEMI_LAST_KW)
    /\ ~(last.type = OPERATOR /\ last.value \notin STMT_END_OPS)
    /\ needs_semi(toks)
    /\ depth > 0

RECURSIVE MissingSemicolons(_, _, _, _)
MissingSemicolons(toks, lines, k, tag) ==
    IF k > Len(lines) THEN <<>>
    ELSE LET lt == LineToks(toks, lines[k])
             last == lt[Len(lt)]
         IN (IF SemicolonMissing(lt, brace_by_line(toks, lines, k))
             THEN <<make_error(Msg(tag, "Missing semicolon ';' at end of statement"),
                               last.value, lines[k], last.column + Len(last.value))>>
             ELSE <<>>)
            \o MissingSemicolons(toks, lines, k + 1, tag)

check_c_syntax(toks, tag) ==
    BracketMatching(toks, 1, <<>>, <<>>, tag)
        \o MissingSemicolons(toks, sorted_lines(toks), 1, tag)

\* Pass 2 of check_python_syntax, first loop: the stream regrouped into
\* logical lines.  last_line = 0 stands for None.
RECURSIVE LogicalLines(_, _, _, _, _, _)
LogicalLines(toks, i, groups, cur, p_depth, last_line) ==
    IF i > Len(toks) THEN (IF cur # <<>> THEN Append(groups, cur) ELSE groups)
    ELSE LET tok == toks[i] IN
         IF tok.type \in {INDENT, DEDENT}
         THEN LogicalLines(toks, i + 1, groups, cur, p_depth, last_line)
         ELSE IF tok.type = ERROR
         THEN LogicalLines(toks, i + 1, groups, Append(cur, tok), p_depth, last_line)
         ELSE LET brk == last_line # 0 /\ tok.line # last_line /\ p_depth = 0 /\ cur # <<>>
                  g == IF brk THEN Append(groups, cur) ELSE groups
                  c == IF brk THEN <<tok>> ELSE Append(cur, tok)
                  d == IF tok.type = DELIMITER /\ tok.value \in openers THEN p_depth + 1
                       ELSE IF tok.type = DELIMITER /\ tok.value \in closers
                       THEN Max(0, p_depth - 1)
                       ELSE p_depth
              IN LogicalLines(toks, i + 1, g, c, d, tok.line)

\* MissingColon with the error placed at the last token, not past it
MissingColon_at_last(line_toks) ==
    LET real == SelectSeq(line_toks, NotError)
        first == real[1]
        last == real[Len(real)]
    IN IF real = <<>> THEN <<>>
       ELSE IF first.type # KEYWORD \/ first.value \notin PY_COMPOUND_KW THEN <<>>
       ELSE IF last.type = DELIMITER /\ last.value = <<":">> THEN <<>>
       ELSE IF last.type = ERROR THEN <<>>
       ELSE <<make_error(Msg(PyTag, "Missing colon ':' after statement header"),
                         first.value, first.line, last.column)>>

\* the body of the second loop: the errors of one logical line
MissingColon(line_toks) ==
    LET real == SelectSeq(line_toks, NotError)
        first == real[1]
        last == real[Len(real)]
    IN IF real = <<>> THEN <<>>
       ELSE IF first.type # KEYWORD \/ first.value \notin PY_COMPOUND_KW THEN <<>>
       ELSE IF last.type = DELIMITER /\ last.value = <<":">> THEN <<>>
       ELSE IF last.type = ERROR THEN <<>>
       ELSE <<make_error(Msg(PyTag, "Missing colon ':' after statement header"),
                         first.value, first.line, last.column + Len(last.value))>>

RECURSIVE MissingColons(_, _)
MissingColons(groups, k) ==
    IF k > Len(groups) THEN <<>>
    ELSE MissingColon(groups[k]) \o MissingColons(groups, k + 1)

check_python_syntax(toks) ==
    BracketMatching(toks, 1, <<>>, <<>>, PyTag)
        \o MissingColons(LogicalLines(toks, 1, <<>>, <<>>, 0, 0), 1)

\* CheckSyntax with the checker taking the ERROR records out of the list
\* it is given
CheckSyntax_filtering ==
    /\ pc = "done"
    /\ syntax_errors' = IF lang = "c" THEN check_c_syntax(result.tokens, CTag)
                        ELSE IF lang = "cpp" THEN check_c_syntax(result.tokens, CppTag)
                        ELSE check_python_syntax(result.tokens)
    /\ result' = [result EXCEPT !.tokens = SelectSeq(@, NotError)]
    /\ pc' = "checked"
    /\ UNCHANGED <<source, lang, detection, other, pos, line, col, tokens, errors,
                   indent_stack, at_line_start, paren_depth>>

\* app.analyze after the scanner has returned: the checker for the language
CheckSyntax ==
    /\ pc = "done"
    /\ syntax_errors' = IF lang = "c" THEN check_c_syntax(result.tokens, CTag)
                        ELSE IF lang = "cpp" THEN check_c_syntax(result.tokens, CppTag)
                        ELSE check_python_syntax(result.tokens)
    /\ pc' = "checked"
    /\ UNCHANGED <<source, lang, detection, other, pos, line, col, tokens, errors,
                   indent_stack, at_line_start, paren_depth, result>>

\* ------------------------------------------------------------ language detector
\* Regular expressions as sequences of items: one character of a set, a
\* repetition of characters of a set (star, plus), the same for characters
\* outside a set (none, nstar, nplus), and the zero-width \b, ^ and $.
Rep(kind, chars) == [k |-> kind, cs |-> chars]
WordBoundary == [k |-> "b", cs |-> {}]
LineStart == [k |-> "bol", cs |-> {}]
LineEnd == [k |-> "eol", cs |-> {}]

\* a literal text
Lit(text) == [i \in 1..Len(text) |-> Rep("one", {text[i]})]

\* \w
WordChars == Lower \cup Upper \cup Digits \cup {"_"}

\* is the character at 1-based index j a word character
WordAt(j) == j >= 1 /\ j <= Len(source) /\ source[j] \in WordChars

\* does the character at index i belong to the class of the item
InClass(it, i) ==
    /\ i <= Len(source)
    /\ IF it.k \in {"one", "star", "plus"} THEN source[i] \in it.cs ELSE source[i] \notin it.cs

\* the items of p from the k-th on match the text from index i on
\* (re.MULTILINE: ^ and $ also match after and before a newline)
RECURSIVE MatchAt(_, _, _)
MatchAt(p, k, i) ==
    IF k > Len(p) THEN TRUE
    ELSE IF p[k].k = "b" THEN WordAt(i - 1) # WordAt(i) /\ MatchAt(p, k + 1, i)
    ELSE IF p[k].k = "bol" THEN (i = 1 \/ source[i - 1] = "\n") /\ MatchAt(p, k + 1, i)
    ELSE IF p[k].k = "eol"
    THEN (i = Len(source) + 1 \/ source[i] = "\n") /\ MatchAt(p, k + 1, i)
    ELSE IF p[k].k \in {"one", "none"} THEN InClass(p[k], i) /\ MatchAt(p, k + 1, i + 1)
    ELSE IF p[k].k \in {"star", "nstar"}
    THEN MatchAt(p, k + 1, i) \/ (InClass(p[k], i) /\ MatchAt(p, k, i + 1))
    ELSE InClass(p[k], i) /\ (MatchAt(p, k + 1, i + 1) \/ MatchAt(p, k, i + 1))

\* re.search(p, source, re.MULTILINE)
search(p) == \E i \in 1..(Len(source) + 1) : MatchAt(p, 1, i)

\* _CPP_STRONG
CPP_STRONG == <<
    <<WordBoundary>> \o Lit(<<"c", "l", "a", "s", "s">>) \o <<WordBoundary>>,
    <<WordBoundary>> \o Lit(<<"n", "a", "m", "e", "s", "p", "a", "c", "e">>) \o <<WordBoundary>>,
    <<WordBoundary>> \o Lit(<<"t", "e", "m", "p", "l", "a", "t", "e">>) \o <<Rep("star", Whitespace)>> \o Lit(<<"<">>),
    <<WordBoundary>> \o Lit(<<"c", "o", "u", "t">>) \o <<WordBoundary>>,
    <<WordBoundary>> \o Lit(<<"c", "i", "n">>) \o <<WordBoundary>>,
    <<WordBoundary>> \o Lit(<<"s", "t", "d">>) \o <<Rep("star", Whitespace)>> \o Lit(<<":", ":">>),
    <<WordBoundary>> \o Lit(<<"n", "u", "l", "l", "p", "t", "r">>) \o <<WordBoundary>>,
    <<WordBoundary>> \o Lit(<<"p", "u", "b", "l", "i", "c">>) \o <<Rep("star", Whitespace)>> \o Lit(<<":">>),
    <<WordBoundary>> \o Lit(<<"p", "r", "i", "v", "a", "t", "e">>) \o <<Rep("star", Whitespace)>> \o Lit(<<":">>),
    <<WordBoundary>> \o Lit(<<"p", "r", "o", "t", "e", "c", "t", "e", "d">>) \o <<Rep("star", Whitespace)>> \o Lit(<<":">>),
    Lit(<<"#", "i", "n", "c", "l", "u", "d", "e">>) \o <<Rep("star", Whitespace)>> \o Lit(<<"<">>) \o <<Rep("nplus", {">"})>> \o Lit(<<">">>),
    <<WordBoundary>> \o Lit(<<"n", "e", "w">>) \o <<Rep("plus", Whitespace), Rep("one", WordChars)>>,
    <<WordBoundary>> \o Lit(<<"d", "e", "l", "e", "t", "e">>) \o <<Rep("plus", Whitespace), Rep("one", WordChars)>>,
    <<WordBoundary>> \o Lit(<<"o", "v", "e", "r", "r", "i", "d", "e">>) \o <<WordBoundary>>,
    <<WordBoundary>> \o Lit(<<"v", "i", "r", "t", "u", "a", "l">>) \o <<WordBoundary>>,
    <<WordBoundary>> \o Lit(<<"c", "o", "n", "s", "t", "e", "x", "p", "r">>) \o <<WordBoundary>>,
    <<WordBoundary>> \o Lit(<<"a", "u", "t", "o">>) \o <<Rep("plus", Whitespace), Rep("plus", WordChars), Rep("star", Whitespace)>> \o Lit(<<"=">>),
    Lit(<<"-", ">">>),
    Lit(<<":", ":">>),
    Lit(<<"[", "[">>)
>>

\* _C_STRONG
C_STRONG == <<
    Lit(<<"#", "i", "n", "c", "l", "u", "d", "e">>) \o <<Rep("star", Whitespace)>> \o Lit(<<"<", "s", "t", "d", "i", "o", ".", "h", ">">>),
    Lit(<<"#", "i", "n", "c", "l", "u", "d", "e">>) \o <<Rep("star", Whitespace)>> \o Lit(<<"<", "s", "t", "d", "l", "i", "b", ".", "h", ">">>),
    Lit(<<"#", "i", "n", "c", "l", "u", "d", "e">>) \o <<Rep("star", Whitespace)>> \o Lit(<<"<", "s", "t", "r", "i", "n", "g", ".", "h", ">">>),
    Lit(<<"#", "i", "n", "c", "l", "u", "d", "e">>) \o <<Rep("star", Whitespace)>> \o Lit(<<"<", "m", "a", "t", "h", ".", "h", ">">>),
    <<WordBoundary>> \o Lit(<<"p", "r", "i", "n", "t", "f">>) \o <<Rep("star", Whitespace)>> \o Lit(<<"(">>),
    <<WordBoundary>> \o Lit(<<"s", "c", "a", "n", "f">>) \o <<Rep("star", Whitespace)>> \o Lit(<<"(">>),
    <<WordBoundary>> \o Lit(<<"m", "a", "l", "l", "o", "c">>) \o <<Rep("star", Whitespace)>> \o Lit(<<"(">>),
    <<WordBoundary>> \o Lit(<<"f", "r", "e", "e">>) \o <<Rep("star", Whitespace)>> \o Lit(<<"(">>),
    <<WordBoundary>> \o Lit(<<"s", "t", "r", "u", "c", "t">>) \o <<Rep("plus", Whitespace), Rep("plus", WordChars), Rep("star", Whitespace)>> \o Lit(<<"{">>),
    <<WordBoundary>> \o Lit(<<"t", "y", "p", "e", "d", "e", "f">>) \o <<Rep("plus", Whitespace)>> \o Lit(<<"s", "t", "r", "u", "c", "t">>) \o <<WordBoundary>>,
    <<WordBoundary>> \o Lit(<<"v", "o", "i", "d">>) \o <<Rep("plus", Whitespace), Rep("plus", WordChars), Rep("star", Whitespace)>> \o Lit(<<"(">>),
    <<WordBoundary>> \o Lit(<<"i", "n", "t">>) \o <<Rep("plus", Whitespace)>> \o Lit(<<"m", "a", "i", "n">>) \o <<Rep("star", Whitespace)>> \o Lit(<<"(">>)
>>

\* _PYTHON_STRONG
PYTHON_STRONG == <<
    <<WordBoundary>> \o Lit(<<"d", "e", "f">>) \o <<Rep("plus", Whitespace), Rep("plus", WordChars), Rep("star", Whitespace)>> \o Lit(<<"(">>),
    <<WordBoundary>> \o Lit(<<"i", "m", "p", "o", "r", "t">>) \o <<Rep("plus", Whitespace), Rep("one", WordChars)>>,
    <<WordBoundary>> \o Lit(<<"f", "r", "o", "m">>) \o <<Rep("plus", Whitespace), Rep("plus", WordChars), Rep("plus", Whitespace)>> \o Lit(<<"i", "m", "p", "o", "r", "t">>) \o <<WordBoundary>>,
    <<WordBoundary>> \o Lit(<<"p", "r", "i", "n", "t">>) \o <<Rep("star", Whitespace)>> \o Lit(<<"(">>),
    <<WordBoundary>> \o Lit(<<"c", "l", "a", "s", "s">>) \o <<Rep("plus", Whitespace), Rep("plus", WordChars), Rep("star", Whitespace), Rep("one", {":", "("})>>,
    <<WordBoundary>> \o Lit(<<"s", "e", "l", "f">>) \o <<WordBoundary>>,
    <<WordBoundary>> \o Lit(<<"N", "o", "n", "e">>) \o <<WordBoundary>>,
    <<WordBoundary>> \o Lit(<<"T", "r", "u", "e">>) \o <<WordBoundary>>,
    <<WordBoundary>> \o Lit(<<"F", "a", "l", "s", "e">>) \o <<WordBoundary>>,
    <<WordBoundary>> \o Lit(<<"e", "l", "i", "f">>) \o <<WordBoundary>>,
    <<WordBoundary>> \o Lit(<<"l", "a", "m", "b", "d", "a">>) \o <<WordBoundary>>,
    <<LineStart, Rep("star", Whitespace)>> \o Lit(<<"#">>) \o <<Rep("nstar", {"\n"}), LineEnd>>,
    Lit(<<"\"", "\"", "\"">>),
    Lit(<<"f">>) \o <<Rep("one", {"'", "\""})>>,
    <<WordBoundary>> \o Lit(<<"r", "a", "n", "g", "e">>) \o <<Rep("star", Whitespace)>> \o Lit(<<"(">>),
    <<WordBoundary>> \o Lit(<<"l", "e", "n">>) \o <<Rep("star", Whitespace)>> \o Lit(<<"(">>),
    <<WordBoundary>> \o Lit(<<"l", "i", "s", "t">>) \o <<Rep("star", Whitespace)>> \o Lit(<<"(">>),
    <<WordBoundary>> \o Lit(<<"d", "i", "c", "t">>) \o <<Rep("star", Whitespace)>> \o Lit(<<"(">>)
>>

\* _C_WEAK
C_WEAK == <<
    <<Rep("one", {"{", "}", ";"})>>,
    Lit(<<"#", "i", "n", "c", "l", "u", "d", "e">>),
    Lit(<<"#", "d", "e", "f", "i", "n", "e">>),
    <<WordBoundary>> \o Lit(<<"i", "n", "t">>) \o <<WordBoundary>>,
    <<WordBoundary>> \o Lit(<<"f", "o", "r">>) \o <<Rep("star", Whitespace)>> \o Lit(<<"(">>),
    <<WordBoundary>> \o Lit(<<"w", "h", "i", "l", "e">>) \o <<Rep("star", Whitespace)>> \o Lit(<<"(">>),
    <<WordBoundary>> \o Lit(<<"i", "f">>) \o <<Rep("star", Whitespace)>> \o Lit(<<"(">>)
>>

\* _CPP_WEAK
CPP_WEAK == <<
    <<WordBoundary>> \o Lit(<<"b", "o", "o", "l">>) \o <<WordBoundary>>,
    Lit(<<"<", "<">>),
    Lit(<<">", ">">>)
>>

\* _PYTHON_WEAK
PYTHON_WEAK == <<
    Lit(<<":">>) \o <<Rep("star", Whitespace), LineEnd>>,
    <<WordBoundary>> \o Lit(<<"f", "o", "r">>) \o <<Rep("plus", Whitespace), Rep("plus", WordChars), Rep("plus", Whitespace)>> \o Lit(<<"i", "n">>) \o <<WordBoundary>>,
    <<WordBoundary>> \o Lit(<<"w", "i", "t", "h">>) \o <<WordBoundary>>,
    <<WordBoundary>> \o Lit(<<"y", "i", "e", "l", "d">>) \o <<WordBoundary>>,
    <<WordBoundary>> \o Lit(<<"a", "s", "y", "n", "c">>) \o <<WordBoundary>>,
    <<WordBoundary>> \o Lit(<<"a", "w", "a", "i", "t">>) \o <<WordBoundary>>
>>

\* cpp_exclusive of detect()
cpp_exclusive == <<
    Lit(<<":", ":">>),
    <<WordBoundary>> \o Lit(<<"n", "a", "m", "e", "s", "p", "a", "c", "e">>) \o <<WordBoundary>>,
    <<WordBoundary>> \o Lit(<<"t", "e", "m", "p", "l", "a", "t", "e">>) \o <<WordBoundary>>,
    <<WordBoundary>> \o Lit(<<"c", "o", "u", "t">>) \o <<WordBoundary>>,
    <<WordBoundary>> \o Lit(<<"n", "u", "l", "l", "p", "t", "r">>) \o <<WordBoundary>>,
    <<WordBoundary>> \o Lit(<<"o", "v", "e", "r", "r", "i", "d", "e">>) \o <<WordBoundary>>
>>

\* for p in patterns: if re.search(p, source): score += weight
RECURSIVE ScoreLoop(_, _, _)
ScoreLoop(patterns, i, weight) ==
    IF i > Len(patterns) THEN 0
    ELSE (IF search(patterns[i]) THEN weight ELSE 0) + ScoreLoop(patterns, i + 1, weight)

\* _score() giving a strong pattern the weight of a weak one
score_flat(strong_patterns, weak_patterns) ==
    ScoreLoop(strong_patterns, 1, 1) + ScoreLoop(weak_patterns, 1, 1)

\* _score(source, strong_patterns, weak_patterns)
score(strong_patterns, weak_patterns) ==
    ScoreLoop(strong_patterns, 1, 3) + ScoreLoop(weak_patterns, 1, 1)

\* the scores dict of detect() and of detect_and_explain()
scores ==
    [cpp |-> score(CPP_STRONG, CPP_WEAK),
     c |-> score(C_STRONG, C_WEAK),
     python |-> score(PYTHON_STRONG, PYTHON_WEAK)]

\* detect() without the C++ bonus
tie_break_none(sc) == sc

\* if any(re.search(p, source) for p in cpp_exclusive): scores["cpp"] += 5
tie_break(sc) ==
    IF \E i \in 1..Len(cpp_exclusive) : search(cpp_exclusive[i])
    THEN [sc EXCEPT !.cpp = @ + 5]
    ELSE sc

\* max(scores, key=...): the first key, in the order cpp, c, python, whose
\* score no other exceeds
best_lang(sc) ==
    IF sc.cpp >= sc.c /\ sc.cpp >= sc.python THEN "cpp"
    ELSE IF sc.c >= sc.python THEN "c"
    ELSE "python"

\* sorted(scores.values(), reverse=True)[1]
second_best(sc) ==
    LET d == <<sc.cpp, sc.c, sc.python>> IN
    CHOOSE v \in {d[1], d[2], d[3]} :
        /\ Cardinality({i \in 1..3 : d[i] > v}) <= 1
        /\ Cardinality({i \in 1..3 : d[i] >= v}) >= 2

\* the confidence ladder asking a gap of 3 for medium
confidence_of_wide_gap(best_score, gap) ==
    IF best_score >= 9 /\ gap >= 3 THEN "high"
    ELSE IF best_score >= 5 \/ gap >= 3 THEN "medium"
    ELSE "low"

\* the confidence ladder of detect()
confidence_of(best_score, gap) ==
    IF best_score >= 9 /\ gap >= 3 THEN "high"
    ELSE IF best_score >= 5 \/ gap >= 2 THEN "medium"
    ELSE "low"

\* detect() without the test for a zero score
classify_nonzero(sc) ==
    [language |-> best_lang(sc),
     confidence |-> confidence_of(sc[best_lang(sc)],
                                  sc[best_lang(sc)] - second_best(sc))]

\* detect() from the scores on
classify(sc) ==
    IF sc[best_lang(sc)] = 0 THEN [language |-> "unknown", confidence |-> "none"]
    ELSE [language |-> best_lang(sc),
          confidence |-> confidence_of(sc[best_lang(sc)],
                                       sc[best_lang(sc)] - second_best(sc))]

\* LanguageDetector.detect(source)
detect ==
    IF source = <<>> \/ Strip(source) = <<>>
    THEN [language |-> "unknown", confidence |-> "none"]
    ELSE classify(tie_break(scores))

\* the result of detect() with the scores of detect_and_explain()
explain(d) == [language |-> d.language, confidence |-> d.confidence, scores |-> scores]

\* LanguageDetector.detect_and_explain(source)
detect_and_explain == explain(detect)

\* A call of detect()
Detect ==
    /\ pc = "detect"
    /\ detection' = [NoDetection EXCEPT !.language = detect.language,
                                        !.confidence = detect.confidence]
    /\ pc' = "detected"
    /\ UNCHANGED <<source, lang, other, pos, line, col, tokens, errors,
                   indent_stack, at_line_start, paren_depth, result, syntax_errors>>

\* A call of detect_and_explain()
DetectAndExplain ==
    /\ pc = "detect"
    /\ detection' = detect_and_explain
    /\ pc' = "explained"
    /\ UNCHANGED <<source, lang, other, pos, line, col, tokens, errors,
                   indent_stack, at_line_start, paren_depth, result, syntax_errors>>

\* ------------------------------------------------------------- specifications
\* Every language over a small alphabet: quote, backslash, two letters (i is
\* no escape character, f is one and a string prefix; together a keyword),
\* a digit, a brace, blank and newline.
Alphabet == {"\"", "\\", "i", "f", "0", "{", " ", "\n"}

Init == InitWith(SeqsUpTo(Alphabet, MaxLen), {"c", "cpp", "python"})

Next ==
    \/ CScanToken
    \/ CppScanToken
    \/ PyHandleIndentation
    \/ PyScanToken
    \/ LoopAtEnd
    \/ CReturn
    \/ PyReturn
    \/ CheckSyntax

Spec == Init /\ [][Next]_vars

\* C and C++ over literals with and without prefix.
AlphabetC == {"L", "'", "\"", "0", ";"}

InitC == InitWith(SeqsUpTo(AlphabetC, MaxLenC), {"c", "cpp"})

NextC ==
    \/ CScanToken
    \/ CppScanToken
    \/ LoopAtEnd
    \/ CReturn
    \/ CheckSyntax

SpecC == InitC /\ [][NextC]_vars

\* Python over whole lines: blank and indented lines, brackets, a radix
\* prefix; a source is up to MaxLines of them joined by newlines.
PyLines == {<<>>, <<" ">>, <<"a">>, <<" ", "a">>, <<" ", " ", "a">>, <<"\t", "a">>,
            <<"(">>, <<")">>, <<" ", ")">>, <<")", " ", "a">>, <<"0", "x">>}

RECURSIVE JoinLines(_)
JoinLines(ls) ==
    IF Len(ls) = 1 THEN ls[1] ELSE ls[1] \o <<"\n">> \o JoinLines(Tail(ls))

PySources == {JoinLines(ls) : ls \in UNION {[1..k -> PyLines] : k \in 1..MaxLines}}

InitPy == InitWith(PySources, {"python"})

NextPy ==
    \/ PyHandleIndentation
    \/ PyScanToken
    \/ LoopAtEnd
    \/ PyReturn
    \/ CheckSyntax

SpecPy == InitPy /\ [][NextPy]_vars

\* All three languages over the six brackets and the newline.
AlphabetB == {"(", ")", "[", "]", "{", "}", "\n"}

InitB == InitWith(SeqsUpTo(AlphabetB, MaxLenB), {"c", "cpp", "python"})

NextB ==
    \/ CScanToken
    \/ CppScanToken
    \/ PyHandleIndentation
    \/ PyScanToken
    \/ CReturn
    \/ PyReturn
    \/ CheckSyntax

SpecB == InitB /\ [][NextB]_vars

\* The detector over texts put together from fragments: the two C++ marks
\* std:: and template<, a Python expression with five strong Python
\* patterns, a semicolon (weak C), an arrow and an attribute opener (strong
\* C++), self (strong Python), a blank and a letter.
Fragments == {
    <<"s", "t", "d", ":", ":">>,
    <<"t", "e", "m", "p", "l", "a", "t", "e", "<">>,
    <<"l", "a", "m", "b", "d", "a", " ", "s", "e", "l", "f", ":", "N", "o", "n", "e", ",",
      "T", "r", "u", "e", ",", "F", "a", "l", "s", "e">>,
    <<";">>,
    <<"-", ">">>,
    <<" ">>,
    <<"x">>}

RECURSIVE Flatten(_)
Flatten(fs) == IF fs = <<>> THEN <<>> ELSE Head(fs) \o Flatten(Tail(fs))

DetectorSources == {Flatten(fs) : fs \in SeqsUpTo(Fragments, MaxFrags)}

InitD ==
    /\ source \in DetectorSources
    /\ lang = ""
    /\ pc = "detect"
    /\ pos = NewLexer.pos
    /\ line = NewLexer.line
    /\ col = NewLexer.col
    /\ tokens = NewLexer.tokens
    /\ errors = NewLexer.errors
    /\ indent_stack = NewLexer.indent_stack
    /\ at_line_start = NewLexer.at_line_start
    /\ paren_depth = NewLexer.paren_depth
    /\ result = [tokens |-> <<>>, errors |-> <<>>]
    /\ syntax_errors = <<>>
    /\ detection = NoDetection
    /\ other = NoInstance

NextD ==
    \/ Detect
    \/ DetectAndExplain

SpecD == InitD /\ [][NextD]_vars

\* Python statement headers over whole lines: headers with and without
\* their colon, a header that spans lines inside brackets or behind a
\* backslash, an invalid character; a source is up to MaxHeaderLines of
\* them joined by newlines.
HeaderLines == {
    <<"i", "f", " ", "x", " ", ">", " ", "0">>,
    <<" ", " ", " ", " ", "p", "r", "i", "n", "t", "(", "x", ")">>,
    <<"i", "f", " ", "x", ":">>,
    <<"e", "l", "s", "e">>,
    <<"x">>,
    <<"i", "f", " ", "(">>,
    <<")">>,
    <<")", ":">>,
    <<"$">>,
    <<"i", "f", " ", "x", " ", "\\">>,
    <<"i", "f">>,
    <<"x", ":">>}

HeaderSources == {JoinLines(ls) : ls \in UNION {[1..k -> HeaderLines] : k \in 1..MaxHeaderLines}}

InitH == InitWith(HeaderSources, {"python"})

NextH ==
    \/ PyHandleIndentation
    \/ PyScanToken
    \/ PyReturn
    \/ CheckSyntax

SpecH == InitH /\ [][NextH]_vars

\* C and C++ statements over whole lines: braces, a declaration without
\* its semicolon, lines that end with ; , and :, a directive, a boolean
\* and an identifier followed by an invalid character; a source is up to
\* MaxStmtLines of them joined by newlines.
StmtLines == {
    <<"{">>,
    <<"}">>,
    <<"i", "n", "t", " ", "x", " ", "=", " ", "5">>,
    <<"x", ";">>,
    <<"#", "x">>,
    <<"x", ",">>,
    <<"x", ":">>,
    <<"t", "r", "u", "e">>,
    <<"x", " ", "$">>}

StmtSources == {JoinLines(ls) : ls \in UNION {[1..k -> StmtLines] : k \in 1..MaxStmtLines}}

InitS == InitWith(StmtSources, {"c", "cpp"})

NextS ==
    \/ CScanToken
    \/ CppScanToken
    \/ LoopAtEnd
    \/ CReturn
    \/ CheckSyntax

SpecS == InitS /\ [][NextS]_vars

\* C and C++ over one function: `int main() {`, up to MaxStatements
\* statements and the closing brace.
MainOpen == <<"i", "n", "t", " ", "m", "a", "i", "n", "(", ")", " ", "{">>

MainClose == <<" ", "}">>

Statements == {
    <<" ", "p", "r", "i", "n", "t", "f", "(", "\"", "h", "i", "\"", ")", ";">>,
    <<" ", "r", "e", "t", "u", "r", "n", " ", "0", ";">>,
    <<" ", "r", "e", "t", "u", "r", "n", " ", "0">>,
    <<"\n">>}

ProgramSources ==
    {MainOpen \o Flatten(body) \o MainClose : body \in SeqsUpTo(Statements, MaxStatements)}

InitM == InitWith(ProgramSources, {"c", "cpp"})

NextM ==
    \/ CScanToken
    \/ CppScanToken
    \/ CReturn
    \/ CheckSyntax

SpecM == InitM /\ [][NextM]_vars

\* Two invocations on separate scanner instances.  The variables of the
\* scanner hold the invocation that is running; other holds the one that
\* is waiting.
\* the object of the running invocation, as it is left when the other runs
Running ==
    [source |-> source, lang |-> lang, pc |-> pc,
     pos |-> pos, line |-> line, col |-> col, tokens |-> tokens, errors |-> errors,
     indent_stack |-> indent_stack, at_line_start |-> at_line_start,
     paren_depth |-> paren_depth, result |-> result]

\* the waiting invocation with the bracket depth an attribute of the class
Waiting_class_depth == [other EXCEPT !.paren_depth = paren_depth]

\* the object of the waiting invocation, as that invocation finds it when
\* it runs again: every field is an attribute of its own instance
Waiting == other

\* The scheduler lets the other invocation take the next step.
Switch ==
    /\ other.lang # ""
    /\ other' = Running
    /\ source' = Waiting.source
    /\ lang' = Waiting.lang
    /\ pc' = Waiting.pc
    /\ pos' = Waiting.pos
    /\ line' = Waiting.line
    /\ col' = Waiting.col
    /\ tokens' = Waiting.tokens
    /\ errors' = Waiting.errors
    /\ indent_stack' = Waiting.indent_stack
    /\ at_line_start' = Waiting.at_line_start
    /\ paren_depth' = Waiting.paren_depth
    /\ result' = Waiting.result
    /\ UNCHANGED <<syntax_errors, detection>>

AlphabetT == {"(", " ", "$"}

InitT ==
    /\ source \in SeqsUpTo(AlphabetT, MaxLenT)
    /\ lang \in {"c", "cpp", "python"}
    /\ pc = "loop"
    /\ pos = NewLexer.pos
    /\ line = NewLexer.line
    /\ col = NewLexer.col
    /\ tokens = NewLexer.tokens
    /\ errors = NewLexer.errors
    /\ indent_stack = NewLexer.indent_stack
    /\ at_line_start = NewLexer.at_line_start
    /\ paren_depth = NewLexer.paren_depth
    /\ result = [tokens |-> <<>>, errors |-> <<>>]
    /\ syntax_errors = <<>>
    /\ detection = NoDetection
    /\ other \in {NewInstance(src, lg) : src \in SeqsUpTo(AlphabetT, MaxLenT),
                                         lg \in {"c", "cpp", "python"}}

NextT ==
    \/ CScanToken
    \/ CppScanToken
    \/ PyHandleIndentation
    \/ PyScanToken
    \/ CReturn
    \/ PyReturn
    \/ Switch

SpecT == InitT /\ [][NextT]_vars

\* C++ over raw string literals: a prefix, the quote, a delimiter, a body
\* of up to MaxBody characters between the parentheses, the delimiter and
\* the quote again, with or without a semicolon behind.
RawStringPrefixes == {<<"R">>, <<"L", "R">>, <<"u", "R">>, <<"U", "R">>, <<"u", "8", "R">>}

RawDelimiters == {<<>>, <<"x">>}

RawLiteral(prefix, delimiter, body) ==
    prefix \o <<"\"">> \o delimiter \o <<"(">> \o body \o <<")">> \o delimiter \o <<"\"">>

RawSources ==
    {RawLiteral(p, d, b) \o tail :
        p \in RawStringPrefixes, d \in RawDelimiters,
        b \in SeqsUpTo({"a", ")", "\""}, MaxBody), tail \in {<<>>, <<";">>}}

InitR == InitWith(RawSources, {"cpp"})

NextR ==
    \/ CppScanToken
    \/ CReturn
    \/ CheckSyntax

SpecR == InitR /\ [][NextR]_vars

\* C over numeric literals: up to MaxNum characters of a digit, the point,
\* the exponent marker and a sign, closed by a semicolon.
AlphabetN == {"1", ".", "e", "+"}

NumberSources == {n \o <<";">> : n \in SeqsUpTo(AlphabetN, MaxNum)}

InitN == InitWith(NumberSources, {"c"})

NextN ==
    \/ CScanToken
    \/ CReturn
    \/ CheckSyntax

SpecN == InitN /\ [][NextN]_vars

\* C over character literals: between the quotes up to MaxChars characters
\* of a backslash, a digit, x and a letter, with or without a semicolon
\* behind.
AlphabetQ == {"\\", "0", "x", "a"}

CharLiteral(body) == <<"'">> \o body \o <<"'">>

CharSources ==
    {CharLiteral(b) \o tail : b \in SeqsUpTo(AlphabetQ, MaxChars), tail \in {<<>>, <<";">>}}

InitQ == InitWith(CharSources, {"c"})

NextQ ==
    \/ CScanToken
    \/ CReturn
    \/ CheckSyntax

SpecQ == InitQ /\ [][NextQ]_vars

\* The three scanners over operator characters: up to MaxLenO of them.
AlphabetO == {"<", "=", "-", ">", "*", ".", ":"}

InitO == InitWith(SeqsUpTo(AlphabetO, MaxLenO), {"c", "cpp", "python"})

NextO ==
    \/ CScanToken
    \/ CppScanToken
    \/ PyHandleIndentation
    \/ PyScanToken
    \/ CReturn
    \/ PyReturn

SpecO == InitO /\ [][NextO]_vars

\* Python over indented lines: up to MaxIndentLines lines, each blank, a
\* comment or a name, behind no, one or two blanks or a tab.
IndentLines == {<<>>, <<" ">>, <<"#">>, <<" ", "#">>, <<"a">>, <<" ", "a">>,
                <<" ", " ", "a">>, <<"\t", "a">>}

IndentSources == {JoinLines(ls) : ls \in UNION {[1..k -> IndentLines] : k \in 1..MaxIndentLines}}

InitI == InitWith(IndentSources, {"python"})

NextI ==
    \/ PyHandleIndentation
    \/ PyScanToken
    \/ PyReturn
    \/ CheckSyntax

SpecI == InitI /\ [][NextI]_vars

\* C++ over raw strings with delimiters of 0 to MaxDelim characters: R, the
\* quote, the delimiter, the parenthesis, a body, and an ending that closes
\* the literal, closes it with another delimiter, or is missing.
Xs(n) == [i \in 1..n |-> "x"]

RawEndings(n) ==
    {<<>>, <<")">> \o Xs(n) \o <<"\"">>, <<")">> \o Xs(n) \o <<"\"", ";">>,
     <<")">> \o Xs(n + 1) \o <<"\"">>, <<")", "\"">>}

DelimiterSources ==
    UNION {{<<"R", "\"">> \o Xs(n) \o <<"(">> \o b \o e : b \in {<<>>, <<"a">>}, e \in RawEndings(n)} :
              n \in 0..MaxDelim}

InitL == InitWith(DelimiterSources, {"cpp"})

NextL ==
    \/ CppScanToken
    \/ CReturn
    \/ CheckSyntax

SpecL == InitL /\ [][NextL]_vars

\* C++ over numbers and words: up to MaxLenU characters of digits, the
\* point, letters and the underscore, closed by a semicolon.
AlphabetU == {"0", "1", ".", "b", "i", "f", "_"}

SuffixSources == {n \o <<";">> : n \in SeqsUpTo(AlphabetU, MaxLenU)}

InitU == InitWith(SuffixSources, {"cpp"})

NextU ==
    \/ CppScanToken
    \/ CReturn
    \/ CheckSyntax

SpecU == InitU /\ [][NextU]_vars

\* C over literals with a leading zero: up to MaxLenZ characters of 0, 8,
\* the point, the exponent marker and the suffixes f and u, closed by a
\* semicolon.
AlphabetZ == {"0", "8", ".", "e", "f", "u"}

ZeroSources == {n \o <<";">> : n \in SeqsUpTo(AlphabetZ, MaxLenZ)}

InitZ == InitWith(ZeroSources, {"c"})

NextZ ==
    \/ CScanToken
    \/ CReturn
    \/ CheckSyntax

SpecZ == InitZ /\ [][NextZ]_vars

\* The detector over sources of up to MaxParts parts: words only the C++
\* tie-break or only the C patterns know, a semicolon, a blank, a newline.
Parts == {<<"t", "e", "m", "p", "l", "a", "t", "e">>, <<"c", "o", "u", "t">>,
          <<"p", "r", "i", "n", "t", "f", "(">>, <<";">>, <<" ">>, <<"\n">>}

ExplainSources == {Flatten(fs) : fs \in SeqsUpTo(Parts, MaxParts)}

InitE ==
    /\ source \in ExplainSources
    /\ lang = ""
    /\ pc = "detect"
    /\ pos = NewLexer.pos
    /\ line = NewLexer.line
    /\ col = NewLexer.col
    /\ tokens = NewLexer.tokens
    /\ errors = NewLexer.errors
    /\ indent_stack = NewLexer.indent_stack
    /\ at_line_start = NewLexer.at_line_start
    /\ paren_depth = NewLexer.paren_depth
    /\ result = [tokens |-> <<>>, errors |-> <<>>]
    /\ syntax_errors = <<>>
    /\ detection = NoDetection
    /\ other = NoInstance

NextE ==
    \/ Detect
    \/ DetectAndExplain

SpecE == InitE /\ [][NextE]_vars

\* --------------------------------------------------------------------- claims
\* Source positions, counted from the text alone: the line and column of
\* the character at 0-based offset k.
NewlinesUpTo(k) == {i \in 1..Min(k, Len(source)) : source[i] = "\n"}

LastNewline(k) ==
    IF NewlinesUpTo(k) = {} THEN 0
    ELSE CHOOSE m \in NewlinesUpTo(k) : \A j \in NewlinesUpTo(k) : j <= m

LineAt(k) == 1 + Cardinality(NewlinesUpTo(k))
ColAt(k) == k - LastNewline(k) + 1

CountType(toks, ty) == Cardinality({i \in 1..Len(toks) : toks[i].type = ty})

Returned == pc \in {"done", "checked"}

EscMsgs == {EscMsgEof, EscMsgBad}

\* the records a step appends to a list
Added(old, new) == SubSeq(new, Len(old) + 1, Len(new))

\* C1: tokenize() terminates and returns for every input: it raises
\* nothing, and no loop is still iterating with the cursor at end of input.
C1_TokenizeTerminates ==
    /\ pc # "raised"
    /\ ~(pc = "spin" /\ AtEnd)

\* C2: the records of the returned token list are in source order: no
\* record's (line, column) is before that of the record preceding it.
NotBefore(a, b) == a.line > b.line \/ (a.line = b.line /\ a.column >= b.column)

C2_SourceOrder ==
    Returned => \A i \in 1..(Len(result.tokens) - 1) :
                    NotBefore(result.tokens[i + 1], result.tokens[i])

\* C3: for input that scans without errors, the values of the non-ERROR,
\* non-INDENT/DEDENT tokens concatenated in order are the source with
\* comments and inter-token whitespace removed; stated for sources that
\* hold no whitespace and no comment or directive, where that is the source.
RECURSIVE ConcatValues(_)
ConcatValues(toks) ==
    IF toks = <<>> THEN <<>>
    ELSE IF Head(toks).type \in {ERROR, INDENT, DEDENT} THEN ConcatValues(Tail(toks))
    ELSE Head(toks).value \o ConcatValues(Tail(toks))

NothingToRemove == \A i \in 1..Len(source) : source[i] \notin Whitespace \cup {"/", "#"}

C3_ValuesReproduceSource ==
    (Returned /\ result.errors = <<>> /\ NothingToRemove)
        => ConcatValues(result.tokens) = source

\* C4 as claimed: one scanned lexeme adds at most one ERROR record to the
\* error list.
C4_OneErrorPerLexeme == [][Len(errors') <= Len(errors) + 1]_vars

\* C4 as amended: a scan of one lexeme adds at most one ERROR record for
\* the lexeme itself and at most one more for each backslash it consumed
\* (an escape the decoder rejects); a scan that added an error has consumed
\* input and leaves the scanner in its loop, inside the source.
NonEscapeErrors(recs) == {i \in 1..Len(recs) : recs[i].message \notin EscMsgs}
EscapeErrors(recs) == {i \in 1..Len(recs) : recs[i].message \in EscMsgs}
Backslashes(from, to) == {i \in (from + 1)..Min(to, Len(source)) : source[i] = "\\"}

C4_OneErrorPerLexemeAndEscape ==
    [][/\ Len(errors') >= Len(errors)
       /\ Cardinality(NonEscapeErrors(Added(errors, errors'))) <= 1
       /\ Cardinality(EscapeErrors(Added(errors, errors')))
              <= Cardinality(Backslashes(pos, pos'))
       /\ Len(errors') > Len(errors)
              => pos' > pos /\ pos' <= Len(source) /\ pc' \in {"loop", "scan"}]_vars

\* a string literal that drew an illegal-escape error and then the
\* end-of-file error, both from one scan
C4_Witness ==
    /\ Len(tokens) = 2
    /\ Len(errors) = 2
    /\ errors[1].message = EscMsgBad
    /\ errors[2].message = Msg(CTag, "Unterminated string literal - reached end of file")

\* C5: every token and every ERROR record of a scanner or of a syntax
\* checker has line >= 1 and column >= 1.
Positive(recs) == \A i \in 1..Len(recs) : recs[i].line >= 1 /\ recs[i].column >= 1

C5_PositionsPositive ==
    /\ Positive(tokens)
    /\ Positive(errors)
    /\ Positive(result.tokens)
    /\ Positive(result.errors)
    /\ Positive(syntax_errors)

\* a checked stream with tokens and a missing-colon or missing-semicolon error
C5_Witness ==
    /\ pc = "checked"
    /\ result.tokens # <<>>
    /\ \E i \in 1..Len(syntax_errors) :
          syntax_errors[i].message.text \in {"Missing colon ':' after statement header",
                                             "Missing semicolon ';' at end of statement"}

\* C6: a token's (line, column) is the source position of the first
\* character of its lexeme (the cursor when its scan began), and an inline
\* ERROR record's (line, column) is the source position at which the value
\* it reports stands in the source.
StandsAt(r) ==
    \E k \in 0..(Len(source) - 1) :
        /\ LineAt(k) = r.line
        /\ ColAt(k) = r.column
        /\ SubSeq(source, k + 1, Min(k + Len(r.value), Len(source))) = r.value

C6_PositionIsFirstCharacter ==
    [][\A i \in (Len(tokens) + 1)..Len(tokens') :
          IF tokens'[i].type = ERROR
          THEN tokens'[i].value # <<>> => StandsAt(tokens'[i])
          ELSE tokens'[i].type \notin {INDENT, DEDENT}
                  => tokens'[i].line = line /\ tokens'[i].column = col]_vars

\* C7: the cursor's line is 1 plus the number of newlines consumed, and its
\* column is 1 plus the number of characters consumed since the last
\* consumed newline (since the start when there is none).
C7_CursorTracksNewlines ==
    /\ line = LineAt(pos)
    /\ col = ColAt(pos)

\* the cursor on a later line, past its first column
C7_Witness == line >= 2 /\ col >= 2 /\ pos <= Len(source)

\* C8: the indentation stack is [0] at the start, is strictly increasing
\* from bottom to top, and keeps its bottom element 0.
C8_IndentStackIncreasing ==
    /\ pos = 0 => indent_stack = <<0>>
    /\ indent_stack # <<>>
    /\ indent_stack[1] = 0
    /\ \A i \in 1..(Len(indent_stack) - 1) : indent_stack[i] < indent_stack[i + 1]

\* two levels pushed and the inner one popped again
C8_Witness ==
    /\ CountType(tokens, INDENT) >= 2
    /\ CountType(tokens, DEDENT) >= 1
    /\ Len(indent_stack) >= 2

\* C9: the bracket-nesting depth is never negative; an opening bracket
\* adds one, a closing bracket at positive depth takes one away, and a
\* closing bracket at depth zero leaves zero and emits one ERROR.
PyScanEnabled ==
    /\ lang = "python"
    /\ \/ pc = "scan"
       \/ pc = "loop" /\ ~AtEnd /\ ~(at_line_start /\ paren_depth = 0)

C9_DepthNeverNegative ==
    [][/\ paren_depth >= 0
       /\ paren_depth' >= 0
       /\ (PyScanEnabled /\ current(Lexer) \in {"(", "[", "{"})
              => paren_depth' = paren_depth + 1 /\ errors' = errors
       /\ (PyScanEnabled /\ current(Lexer) \in {")", "]", "}"} /\ paren_depth > 0)
              => paren_depth' = paren_depth - 1 /\ errors' = errors
       /\ (PyScanEnabled /\ current(Lexer) \in {")", "]", "}"} /\ paren_depth = 0)
              => /\ paren_depth' = 0
                 /\ errors' = Append(errors, make_error(Msg(PyTag, "Unmatched closing bracket"),
                                                        <<current(Lexer)>>, line, col))]_vars

\* a bracket opened and closed, then a closer met at depth zero
C9_Witness ==
    /\ paren_depth = 0
    /\ \E i \in 1..Len(tokens) : tokens[i].type = DELIMITER /\ tokens[i].value = <<"(">>
    /\ \E i \in 1..Len(errors) : errors[i].message = Msg(PyTag, "Unmatched closing bracket")

\* C10: for input of well-formed blocks (no dedent to a width that is no
\* enclosing level) the returned stream holds as many DEDENT as INDENT tokens.
UnindentMsg == Msg(PyTag, "Indentation error - unindent does not match any outer indentation level")

WellFormedBlocks == \A i \in 1..Len(result.errors) : result.errors[i].message # UnindentMsg

C10_IndentsMatchDedents ==
    (lang = "python" /\ Returned /\ WellFormedBlocks)
        => CountType(result.tokens, INDENT) = CountType(result.tokens, DEDENT)

\* two nested blocks, returned without an error
C10_Witness ==
    /\ lang = "python"
    /\ Returned
    /\ result.errors = <<>>
    /\ CountType(result.tokens, INDENT) >= 2

\* C11: a record, once appended to a scanner's stream or error list, is not
\* changed by any later step: every step leaves the records already present
\* as they are, kind, value, position and message.
C11_RecordsImmutable ==
    [][/\ Len(tokens') >= Len(tokens)
       /\ \A i \in 1..Len(tokens) : tokens'[i] = tokens[i]
       /\ Len(errors') >= Len(errors)
       /\ \A i \in 1..Len(errors) : errors'[i] = errors[i]]_vars

IsError(t) == t.type = ERROR

\* C12: in every reachable state the error list is the subsequence of the
\* ERROR records of the token stream, in the same order, and so it is in the
\* returned result.
C12_ErrorsAreStreamErrors ==
    /\ errors = SelectSeq(tokens, IsError)
    /\ Returned => result.errors = SelectSeq(result.tokens, IsError)

\* a returned result holding two errors and a token between them
C12_Witness ==
    /\ Returned
    /\ Len(result.errors) = 2
    /\ Len(result.tokens) = 3
    /\ result.tokens[2].type # ERROR

\* The brackets of a text, and whether they are properly nested: every
\* closer meets the opener of its own kind, and none is left open.
IsBracket(c) == c \in {"(", ")", "[", "]", "{", "}"}

OpenerOf(c) == IF c = ")" THEN "(" ELSE IF c = "]" THEN "[" ELSE "{"

RECURSIVE Nests(_, _)
Nests(bs, open) ==
    IF bs = <<>> THEN open = <<>>
    ELSE IF Head(bs) \in {"(", "[", "{"} THEN Nests(Tail(bs), <<Head(bs)>> \o open)
    ELSE /\ open # <<>>
         /\ Head(open) = OpenerOf(Head(bs))
         /\ Nests(Tail(bs), Tail(open))

ProperlyNested == Nests(SelectSeq(source, IsBracket), <<>>)

BracketTexts == {"Unexpected - no matching", "Mismatched bracket",
                 "Unclosed - missing matching closing bracket",
                 "Unmatched closing bracket"}

NoBracketError(recs) == \A i \in 1..Len(recs) : recs[i].message.text \notin BracketTexts

\* C13: a source whose brackets are properly nested draws no bracket error in
\* any language, neither an Unmatched closing bracket from the Python
\* scanner nor an Unexpected, Mismatched or Unclosed from either checker.
C13_NestedBracketsNoError ==
    ProperlyNested =>
        /\ NoBracketError(errors)
        /\ NoBracketError(result.errors)
        /\ NoBracketError(syntax_errors)

\* brackets of two kinds, nested, scanned and checked
C13_Witness ==
    /\ pc = "checked"
    /\ ProperlyNested
    /\ Len(source) = 4
    /\ source[1] = "("
    /\ source[2] \in {"[", "{"}
    /\ Len(result.tokens) >= 4

\* A literal opened before offset i runs to the end of input: from i on
\* there is no quote outside an escape and no newline.
RECURSIVE RunsToEnd(_)
RunsToEnd(i) ==
    IF i > Len(source) THEN TRUE
    ELSE IF source[i] \in {"\"", "\n"} THEN FALSE
    ELSE IF source[i] = "\\"
    THEN (i + 1 > Len(source) \/ source[i + 1] # "\n") /\ RunsToEnd(i + 2)
    ELSE RunsToEnd(i + 1)

UnterminatedEof == Msg(CTag, "Unterminated string literal - reached end of file")

WithMessage(recs, m) == {i \in 1..Len(recs) : recs[i].message = m}

\* C14: the C scan of a string literal that opens with a double quote and
\* runs to the end of input without closing quote or newline appends exactly
\* one ERROR with the message Unterminated string literal - reached end of
\* file, to the stream and to the error list, and no STRING token; whatever
\* else it appends is an ERROR of the escape reader.
C14_UnterminatedStringAtEof ==
    [][(lang = "c" /\ pc = "loop" /\ pos < Len(source) /\ source[pos + 1] = "\""
        /\ RunsToEnd(pos + 2))
       => /\ Cardinality(WithMessage(Added(tokens, tokens'), UnterminatedEof)) = 1
          /\ Cardinality(WithMessage(Added(errors, errors'), UnterminatedEof)) = 1
          /\ \A i \in 1..Len(Added(tokens, tokens')) :
                /\ Added(tokens, tokens')[i].type = ERROR
                /\ Added(tokens, tokens')[i].message \in EscMsgs \cup {UnterminatedEof}
          /\ pos' = Len(source)]_vars

\* the literal "\" whose only other quote is escaped, scanned to the end
C14_Witness ==
    /\ lang = "c"
    /\ source = <<"\"", "\\", "\"">>
    /\ pos = Len(source)
    /\ Len(errors) = 1
    /\ errors[1].message = UnterminatedEof
    /\ errors[1].value = source

\* A detector call has returned.
Detected == pc \in {"detected", "explained"}

\* the text occurs in the source
Contains(text) ==
    \E i \in 1..(Len(source) - Len(text) + 1) : SubSeq(source, i, i + Len(text) - 1) = text

StdScope == <<"s", "t", "d", ":", ":">>
TemplateOpen == <<"t", "e", "m", "p", "l", "a", "t", "e", "<">>

\* C15 as stated: every input that contains std:: and template< is
\* classified as cpp with confidence medium or high.
C15_StdTemplateIsCpp ==
    (Detected /\ Contains(StdScope) /\ Contains(TemplateOpen))
        => /\ detection.language = "cpp"
           /\ detection.confidence \in {"medium", "high"}

\* C15 amended: an input that contains std:: and template< has a C++ score
\* of at least 8 and is classified with confidence medium or high; its
\* language is cpp exactly when neither the C nor the Python score exceeds
\* the C++ score.
C15_StdTemplateIsCppUnlessOutscored ==
    (Detected /\ Contains(StdScope) /\ Contains(TemplateOpen))
        => LET sc == tie_break(scores) IN
           /\ sc.cpp >= 8
           /\ detection.confidence \in {"medium", "high"}
           /\ detection.language = "cpp" <=> (sc.c <= sc.cpp /\ sc.python <= sc.cpp)

\* both marks in the input, classified as cpp with high confidence
C15_Witness ==
    /\ Detected
    /\ Contains(StdScope)
    /\ Contains(TemplateOpen)
    /\ detection.language = "cpp"
    /\ detection.confidence = "high"

\* The winning score and the score of the runner-up among three scores.
TopScore(sc) == CHOOSE v \in {sc.cpp, sc.c, sc.python} : \A w \in {sc.cpp, sc.c, sc.python} : w <= v

LeastScore(sc) == CHOOSE v \in {sc.cpp, sc.c, sc.python} : \A w \in {sc.cpp, sc.c, sc.python} : w >= v

RunnerUp(sc) == sc.cpp + sc.c + sc.python - TopScore(sc) - LeastScore(sc)

Margin(sc) == TopScore(sc) - RunnerUp(sc)

\* C16: with s the winning score and m its margin over the runner-up, the
\* confidence is high when s >= 9 and m >= 3, otherwise medium when s >= 5
\* or m >= 2, otherwise low when s > 0, and s = 0 gives unknown with none.
C16_ConfidenceLadder ==
    Detected =>
        LET sc == tie_break(scores)
            s == TopScore(sc)
            m == Margin(sc)
        IN /\ (s >= 9 /\ m >= 3) => detection.confidence = "high"
           /\ (~(s >= 9 /\ m >= 3) /\ (s >= 5 \/ m >= 2)) => detection.confidence = "medium"
           /\ (~(s >= 9 /\ m >= 3) /\ ~(s >= 5 \/ m >= 2) /\ s > 0)
                => detection.confidence = "low"
           /\ s = 0 => detection.language = "unknown" /\ detection.confidence = "none"

\* medium by the margin alone: a winning score below 5
C16_Witness ==
    /\ Detected
    /\ detection.confidence = "medium"
    /\ LET sc == tie_break(scores) IN TopScore(sc) < 5 /\ Margin(sc) = 2

\* The patterns of a list that match, each counted once.
Matched(patterns) == Cardinality({i \in 1..Len(patterns) : search(patterns[i])})

ExpectedScores ==
    [cpp |-> 3 * Matched(CPP_STRONG) + Matched(CPP_WEAK)
             + (IF Matched(cpp_exclusive) >= 1 THEN 5 ELSE 0),
     c |-> 3 * Matched(C_STRONG) + Matched(C_WEAK),
     python |-> 3 * Matched(PYTHON_STRONG) + Matched(PYTHON_WEAK)]

\* C17: the score of a language in detect() is 3 for each of its strong
\* patterns that matches plus 1 for each weak one, each pattern once, the
\* C++ score with 5 more exactly when a C++-exclusive pattern matches, and a
\* language that is returned has a maximal score.
C17_WeightedScores ==
    Detected =>
        LET e == ExpectedScores IN
        /\ tie_break(scores) = e
        /\ detection.language \in {"cpp", "c", "python"}
              => e[detection.language] = TopScore(e)

\* a pattern that occurs twice in the input and one of another language
C17_Witness ==
    /\ Detected
    /\ source = <<"-", ">", "-", ">", ";">>
    /\ detection.language = "cpp"

Blank == \A i \in 1..Len(source) : source[i] \in Whitespace

\* C18: unknown goes with none and only with it; it is the result for an
\* empty or whitespace-only input and for an input on which every score is
\* zero, and every other input gets one of c, cpp, python with low, medium
\* or high.
C18_UnknownIffNone ==
    Detected =>
        LET zero == Blank \/ TopScore(ExpectedScores) = 0 IN
        /\ detection.language = "unknown" <=> detection.confidence = "none"
        /\ zero => detection.language = "unknown" /\ detection.confidence = "none"
        /\ ~zero => /\ detection.language \in {"c", "cpp", "python"}
                    /\ detection.confidence \in {"low", "medium", "high"}

\* an input that is not blank and matches no pattern
C18_Witness ==
    /\ Detected
    /\ ~Blank
    /\ TopScore(ExpectedScores) = 0
    /\ detection.language = "unknown"

\* The tokens the Python checker groups: neither ERROR nor INDENT nor DEDENT.
Grouped(t) == t.type \notin {ERROR, INDENT, DEDENT}

\* the bracket depth after the first k grouped tokens, never below zero
RECURSIVE DepthAfter(_, _)
DepthAfter(w, k) ==
    IF k = 0 THEN 0
    ELSE LET d == DepthAfter(w, k - 1) IN
         IF w[k].value \in {<<"(">>, <<"[">>, <<"{">>} THEN d + 1
         ELSE IF w[k].value \in {<<")">>, <<"]">>, <<"}">>} /\ d > 0 THEN d - 1
         ELSE d

\* a logical line starts at the first token and wherever the physical line
\* changes while the bracket depth is zero
StartsLine(w, i) ==
    i = 1 \/ (w[i].line # w[i - 1].line /\ DepthAfter(w, i - 1) = 0)

\* the last token of the logical line that starts at i
EndOfLine(w, i) ==
    CHOOSE j \in i..Len(w) :
        /\ \A k \in (i + 1)..j : ~StartsLine(w, k)
        /\ j = Len(w) \/ StartsLine(w, j + 1)

CompoundKeywords == {
    <<"i", "f">>, <<"e", "l", "i", "f">>, <<"e", "l", "s", "e">>, <<"f", "o", "r">>,
    <<"w", "h", "i", "l", "e">>, <<"d", "e", "f">>, <<"c", "l", "a", "s", "s">>,
    <<"w", "i", "t", "h">>, <<"t", "r", "y">>, <<"e", "x", "c", "e", "p", "t">>,
    <<"f", "i", "n", "a", "l", "l", "y">>, <<"a", "s", "y", "n", "c">>}

HeaderWithoutColon(w, i) ==
    /\ w[i].type = KEYWORD
    /\ w[i].value \in CompoundKeywords
    /\ w[EndOfLine(w, i)].value # <<":">>

IsMissingColon(e) ==
    e.message = Msg(PyTag, "Missing colon ':' after statement header")

IfWithoutColon ==
    <<"i", "f", " ", "x", " ", ">", " ", "0", "\n", " ", " ", " ", " ", "p", "r", "i", "n", "t", "(", "x", ")">>

\* C19: in the output of check_python_syntax every logical line that starts
\* with a compound-statement keyword and does not end with ':' has exactly
\* one missing-colon error, on the line of the keyword and at the column
\* just past the last token of the logical line; every other logical line
\* has none, and there is no missing-colon error besides these.  The source
\* `if x > 0` followed by an indented `print(x)` has exactly one, on line 1.
C19_MissingColon ==
    (pc = "checked" /\ lang = "python") =>
        LET w == SelectSeq(result.tokens, Grouped)
            ce == SelectSeq(syntax_errors, IsMissingColon)
            starts == {i \in 1..Len(w) : StartsLine(w, i)}
        IN /\ \A i \in starts :
                  LET last == w[EndOfLine(w, i)]
                      here == {k \in 1..Len(ce) : ce[k].line = w[i].line}
                  IN IF HeaderWithoutColon(w, i)
                     THEN /\ Cardinality(here) = 1
                          /\ \A k \in here : ce[k].column = last.column + Len(last.value)
                     ELSE here = {}
           /\ \A k \in 1..Len(ce) :
                  \E i \in starts : HeaderWithoutColon(w, i) /\ ce[k].line = w[i].line
           /\ source = IfWithoutColon => Len(ce) = 1 /\ ce[1].line = 1

\* the checker has run on `if x > 0` followed by an indented `print(x)` and
\* reported the missing colon at the end of the first line
C19_Witness ==
    /\ pc = "checked"
    /\ source = IfWithoutColon
    /\ \E k \in 1..Len(syntax_errors) :
           /\ IsMissingColon(syntax_errors[k])
           /\ syntax_errors[k].line = 1
           /\ syntax_errors[k].column = 9

\* the brace depth after the first k tokens of w, never below zero
RECURSIVE BraceDepth(_, _)
BraceDepth(w, k) ==
    IF k = 0 THEN 0
    ELSE LET d == BraceDepth(w, k - 1) IN
         IF w[k].value = <<"{">> THEN d + 1
         ELSE IF w[k].value = <<"}">> /\ d > 0 THEN d - 1
         ELSE d

OnLine(w, ln) == {i \in 1..Len(w) : w[i].line = ln}
FirstOn(w, ln) == CHOOSE i \in OnLine(w, ln) : \A j \in OnLine(w, ln) : i <= j
LastOn(w, ln) == CHOOSE i \in OnLine(w, ln) : \A j \in OnLine(w, ln) : j <= i

\* the brace depth entering a line: the depth after the tokens before it
DepthEntering(w, ln) == BraceDepth(w, FirstOn(w, ln) - 1)

IsMissingSemicolon(e) == e.message.text = "Missing semicolon ';' at end of statement"

OperandTypes == {IDENTIFIER, INTEGER, FLOAT, STRING_T, CHAR, BOOLEAN_T}

LineEnders == {<<";">>, <<"{">>, <<"}">>, <<",">>, <<":">>}

DeclarationInBody ==
    <<"{", "\n", "i", "n", "t", " ", "x", " ", "=", " ", "5", "\n", "}">>

\* C20: in the output of check_c_syntax a line that does not start with a
\* preprocessor directive and whose last non-error token is an identifier,
\* a literal or a boolean has exactly one missing-semicolon error when the
\* brace depth entering the line is greater than zero; a line entered at
\* depth zero has none, a line whose last token is one of ; { } , : has
\* none, and every missing-semicolon error is on a line that has tokens.
\* `int x = 5` on a line of its own inside a body has exactly one.
C20_MissingSemicolon ==
    (pc = "checked" /\ lang \in {"c", "cpp"}) =>
        LET w == SelectSeq(result.tokens, NotError)
            se == SelectSeq(syntax_errors, IsMissingSemicolon)
            lns == {w[i].line : i \in 1..Len(w)}
        IN /\ \A ln \in lns :
                  LET first == w[FirstOn(w, ln)]
                      last == w[LastOn(w, ln)]
                      d == DepthEntering(w, ln)
                      here == {k \in 1..Len(se) : se[k].line = ln}
                  IN /\ (first.type # PREPROCESSOR /\ last.type \in OperandTypes /\ d > 0)
                            => Cardinality(here) = 1
                     /\ d = 0 => here = {}
                     /\ last.value \in LineEnders => here = {}
           /\ \A k \in 1..Len(se) : se[k].line \in lns
           /\ source = DeclarationInBody => Len(se) = 1 /\ se[1].line = 2

\* the checker has run on a body that holds `int x = 5` and reported the
\* missing semicolon on that line
C20_Witness ==
    /\ pc = "checked"
    /\ source = DeclarationInBody
    /\ \E k \in 1..Len(syntax_errors) :
           /\ IsMissingSemicolon(syntax_errors[k])
           /\ syntax_errors[k].line = 2

\* C21: no record returned by CppLexer.tokenize() carries a message tagged
\* '[C Error]', in the token stream or in the error list.
C21_CppErrorsLabelled ==
    (lang = "cpp" /\ Returned) =>
        /\ \A i \in 1..Len(result.tokens) : result.tokens[i].message.tag # CTag
        /\ \A i \in 1..Len(result.errors) : result.errors[i].message.tag # CTag

HelloProgram ==
    <<"i", "n", "t", " ", "m", "a", "i", "n", "(", ")", " ", "{", " ", "p", "r", "i", "n", "t", "f", "(", "\"", "h", "i", "\"", ")", ";", " ", "r", "e", "t", "u", "r", "n", " ", "0", ";", " ", "}">>

\* the tokens of the returned stream with a given type and value
TokensOf(ttype, value) ==
    {i \in 1..Len(result.tokens) :
        result.tokens[i].type = ttype /\ result.tokens[i].value = value}

\* C22: `int main() { printf("hi"); return 0; }` tokenized as C and checked
\* by check_c_syntax has no error of the scanner and none of the checker,
\* exactly one KEYWORD `return`, exactly one STRING `"hi"`, and as many `(`
\* as `)` DELIMITER tokens.
C22_HelloProgram ==
    (pc = "checked" /\ lang = "c" /\ source = HelloProgram) =>
        /\ result.errors = <<>>
        /\ syntax_errors = <<>>
        /\ \A i \in 1..Len(result.tokens) : result.tokens[i].type # ERROR
        /\ Cardinality(TokensOf(KEYWORD, <<"r", "e", "t", "u", "r", "n">>)) = 1
        /\ Cardinality(TokensOf(STRING_T, <<"\"", "h", "i", "\"">>)) = 1
        /\ Cardinality(TokensOf(DELIMITER, <<"(">>)) = Cardinality(TokensOf(DELIMITER, <<")">>))

\* the program has been tokenized as C and checked, and its brackets are
\* in the stream
C22_Witness ==
    /\ pc = "checked"
    /\ lang = "c"
    /\ source = HelloProgram
    /\ Len(result.tokens) = 14
    /\ Cardinality(TokensOf(DELIMITER, <<"(">>)) = 2

\* tokenize() run from a new scanner object to its return, with no other
\* invocation: the C loop and the Python loop with its final DEDENTs.  An
\* invocation that raises or does not leave a reader has no result.
NoResult == [tokens |-> <<>>, errors |-> <<>>, returned |-> FALSE]

ResultOf(s) ==
    [tokens |-> SelectSeq(s.tokens, NotComment), errors |-> s.errors, returned |-> TRUE]

RECURSIVE TokenizeAlone(_)
TokenizeAlone(s) ==
    IF s.spin \/ s.exc THEN NoResult
    ELSE IF at_end(s)
    THEN (IF lang = "python" THEN ResultOf(FinalDedents(s)) ELSE ResultOf(s))
    ELSE IF lang = "c" THEN TokenizeAlone(c_scan_token(s))
    ELSE IF lang = "cpp" THEN TokenizeAlone(cpp_scan_token(s))
    ELSE IF s.at_line_start /\ s.paren_depth = 0
    THEN TokenizeAlone(py_scan_token(handle_indentation(s)))
    ELSE TokenizeAlone(py_scan_token(s))

\* C23: whenever an invocation has returned, with the steps of another
\* invocation on a separate instance interleaved in any order before and
\* after its own, the result it holds is the result of the same invocation
\* run alone.
C23_InvocationsIndependent ==
    (pc = "done" /\ other.lang # "") =>
        LET alone == TokenizeAlone(NewLexer) IN
        /\ alone.returned
        /\ result.tokens = alone.tokens
        /\ result.errors = alone.errors

\* both invocations have returned, each with records of its own, and the
\* one that returned first was interrupted by the other
C23_Witness ==
    /\ pc = "done"
    /\ other.pc = "done"
    /\ lang = "python"
    /\ other.lang = "python"
    /\ source = <<"(", "$">>
    /\ other.source = <<" ", "$">>
    /\ Len(result.tokens) = 2
    /\ Len(other.result.tokens) = 3

\* C24: a call of check_c_syntax or check_python_syntax leaves the token
\* sequence it is given as it was, record for record, and every record it
\* returns is an ERROR record.
C24_CheckerReadsOnly ==
    [][(pc = "done" /\ pc' = "checked") =>
          /\ result'.tokens = result.tokens
          /\ result'.errors = result.errors
          /\ tokens' = tokens
          /\ \A i \in 1..Len(syntax_errors') : syntax_errors'[i].type = ERROR]_vars

\* a checker has returned errors for a stream that holds an ERROR record
\* of the scanner among its tokens
C24_Witness ==
    /\ pc = "checked"
    /\ Len(syntax_errors) >= 2
    /\ Len(result.tokens) >= 3
    /\ \E i \in 1..Len(result.tokens) : result.tokens[i].type = ERROR
    /\ \E i \in 1..Len(result.tokens) : result.tokens[i].type = DELIMITER

\* the records of the indentation handler
IsIndentation(t) ==
    \/ t.type \in {INDENT, DEDENT}
    \/ t.type = ERROR /\ t.message = UnindentMsg

\* C25: a step of the Python scanner other than the return from tokenize()
\* appends INDENT, DEDENT or indentation ERROR records only when it starts
\* at the first character of a physical line with the bracket depth at
\* zero; none is appended from the middle of a physical line.
C25_IndentationAtLineStart ==
    [][(/\ lang = "python"
        /\ pc' # "done"
        /\ \E i \in (Len(tokens) + 1)..Len(tokens') : IsIndentation(tokens'[i]))
          => /\ paren_depth = 0
             /\ pos = 0 \/ source[pos] = "\n"]_vars

\* the whole source is one raw string literal: the body does not hold the
\* closing sequence
WellFormedRaw ==
    \E p \in RawStringPrefixes, d \in RawDelimiters, b \in SeqsUpTo({"a", ")", "\""}, MaxBody) :
        /\ source = RawLiteral(p, d, b)
        /\ \A i \in 1..Len(b) :
              SubSeq(b \o <<")">> \o d \o <<"\"">>, i, i + Len(d) + 1) # <<")">> \o d \o <<"\"">>

\* C26: a well-formed raw string literal, with the prefix R, LR, uR, UR or
\* u8R, is returned by the C++ scanner as exactly one STRING token whose
\* value is the whole lexeme, and with no error.
C26_PrefixedRawString ==
    (lang = "cpp" /\ Returned /\ WellFormedRaw) =>
        /\ result.errors = <<>>
        /\ Len(result.tokens) = 1
        /\ result.tokens[1].type = STRING_T
        /\ result.tokens[1].value = source

AllDigits(i, j) == \A k \in i..j : source[k] \in Digits

\* the source starts with digits, a point, a fraction of at least one
\* digit, and a second point
SecondPoint ==
    \E i \in 1..Len(source), j \in 1..Len(source) :
        /\ i + 2 <= j /\ j < Len(source)
        /\ AllDigits(1, i)
        /\ source[i + 1] = "."
        /\ AllDigits(i + 2, j)
        /\ source[j + 1] = "."

\* the source starts with digits, maybe a point and a fraction, then an
\* exponent marker and maybe a sign with no digit behind
BareExponent ==
    \E i \in 1..Len(source), j \in 1..Len(source), k \in 1..Len(source) :
        /\ i <= j /\ j < k /\ k < Len(source)
        /\ AllDigits(1, i)
        /\ j > i => source[i + 1] = "." /\ AllDigits(i + 2, j)
        /\ source[j + 1] \in {"e", "E"}
        /\ \/ k = j + 1 /\ source[k + 1] \notin {"+", "-"}
           \/ k = j + 2 /\ source[k] \in {"+", "-"}
        /\ source[k + 1] \notin Digits

NumericAtStart ==
    \E i \in 1..Len(result.tokens) :
        /\ result.tokens[i].type \in {INTEGER, FLOAT}
        /\ result.tokens[i].line = 1
        /\ result.tokens[i].column = 1

ErrorWith(text) ==
    \E i \in 1..Len(result.errors) : result.errors[i].message = Msg(CTag, text)

\* C27: the C scanner reports a decimal literal whose fraction is followed
\* by a second point as a 'multiple decimal points' ERROR and an exponent
\* marker with no digit behind it as an ERROR, and in both cases emits no
\* numeric token for the literal.
C27_MalformedNumbers ==
    (lang = "c" /\ Returned) =>
        /\ SecondPoint =>
              /\ ErrorWith("Malformed numeric literal - multiple decimal points")
              /\ ~NumericAtStart
        /\ BareExponent =>
              /\ ErrorWith("Malformed float literal - expected digits after exponent")
              /\ ~NumericAtStart

IsLiteral(t) == t.type \in {STRING_T, CHAR}

\* the text of the source that starts at the position of a record and has
\* the length of its value
LexemeAt(t) ==
    LET k == CHOOSE k \in 0..Len(source) : LineAt(k) = t.line /\ ColAt(k) = t.column
    IN SubSeq(source, k + 1, k + Len(t.value))

\* C28: every STRING and CHAR token returned by the C and the C++ scanner
\* has as its value the source text from its own position, where its
\* prefix starts if it has one, through its closing quote; and no such
\* token runs over a raw newline.
C28_LiteralValueIsLexeme ==
    (lang \in {"c", "cpp"} /\ Returned) =>
        \A i \in 1..Len(result.tokens) :
            IsLiteral(result.tokens[i]) =>
                /\ result.tokens[i].value = LexemeAt(result.tokens[i])
                /\ \A j \in 1..Len(result.tokens[i].value) : result.tokens[i].value[j] # "\n"

\* the length of the longest run of characters of a set at the head of a
\* text, up to a limit
RECURSIVE RunLength(_, _, _)
RunLength(b, set, limit) ==
    IF b = <<>> \/ limit = 0 \/ Head(b) \notin set THEN 0
    ELSE 1 + RunLength(Tail(b), set, limit - 1)

Drop(b, n) == SubSeq(b, n + 1, Len(b))

NotALiteralBody == 0 - 100

SimpleEscapes == {"n", "r", "t", "a", "b", "f", "v", "\\", "'", "\"", "?"}

\* The number of logical characters of the text between the quotes of a
\* character literal, as C counts them: a plain character, a simple
\* escape, \x with its hex digits and a backslash with one to three octal
\* digits are one each.  Negative for a text that is no literal body.
RECURSIVE LogicalChars(_)
LogicalChars(b) ==
    IF b = <<>> THEN 0
    ELSE IF Head(b) # "\\" THEN 1 + LogicalChars(Tail(b))
    ELSE IF Len(b) = 1 THEN NotALiteralBody
    ELSE IF b[2] = "x"
    THEN LET n == RunLength(Drop(b, 2), HexDigits, Len(b)) IN
         IF n = 0 THEN NotALiteralBody ELSE 1 + LogicalChars(Drop(b, 2 + n))
    ELSE IF b[2] \in OctDigits
    THEN 1 + LogicalChars(Drop(b, 1 + RunLength(Tail(b), OctDigits, 3)))
    ELSE IF b[2] \in SimpleEscapes THEN 1 + LogicalChars(Drop(b, 2))
    ELSE NotALiteralBody

\* C29: for a character literal the C scanner returns an 'Empty character
\* literal' ERROR when nothing is between the quotes, a 'Multi-character'
\* ERROR when more than one logical character is, and a CHAR token with no
\* error when exactly one is; an escape sequence is one logical character.
C29_CharLiteralCount ==
    (lang = "c" /\ Returned) =>
        \A b \in SeqsUpTo(AlphabetQ, MaxChars) :
            (source \in {CharLiteral(b), CharLiteral(b) \o <<";">>} /\ LogicalChars(b) >= 0) =>
                LET n == LogicalChars(b)
                    first == result.tokens[1]
                IN /\ n = 0 => /\ first.type = ERROR
                               /\ first.message = Msg(CTag, "Empty character literal ''")
                   /\ n > 1 => /\ first.type = ERROR
                               /\ first.message =
                                    Msg(CTag, "Multi-character character literal (implementation-defined behavior)")
                   /\ n = 1 => /\ first.type = CHAR
                               /\ first.value = CharLiteral(b)
                               /\ result.errors = <<>>

\* the characters the escape decoder is said to recognize
RecognizedEscapes ==
    {"n", "r", "t", "a", "b", "f", "v", "0", "\\", "'", "\"", "?", "x", "u", "U", "N"}
        \cup OctDigits

\* the scanner standing just behind the backslash at offset k of the source
\* (0-based cursor k), with nothing collected yet
BehindBackslash(k) == [Lexer EXCEPT !.pos = k]

\* C30: called just behind a consumed backslash, the escape decoder consumes
\* a recognized character and returns backslash + character with no error;
\* it consumes any other character, adds exactly one ERROR whose value is
\* the two characters, and returns them; at end of input it consumes
\* nothing, adds exactly one 'unterminated escape' ERROR and returns a bare
\* backslash.
C30_EscapeDecoder ==
    \A k \in 1..Len(source) :
        source[k] = "\\" =>
            LET s == BehindBackslash(k)
                r == read_escape(s, line, col)
                ch == current(s)
                newErrors == Added(s.errors, r.errors)
                newTokens == Added(s.tokens, r.tokens)
            IN IF ch = ""
               THEN /\ r.pos = s.pos
                    /\ r.value = <<"\\">>
                    /\ Len(newErrors) = 1
                    /\ newErrors[1].type = ERROR
                    /\ newErrors[1].message = EscMsgEof
                    /\ newTokens = newErrors
               ELSE IF ch \in RecognizedEscapes
               THEN /\ r.pos = s.pos + 1
                    /\ r.value = <<"\\", ch>>
                    /\ r.errors = s.errors
                    /\ r.tokens = s.tokens
               ELSE /\ r.pos = s.pos + 1
                    /\ r.value = <<"\\", ch>>
                    /\ Len(newErrors) = 1
                    /\ newErrors[1].type = ERROR
                    /\ newErrors[1].value = <<"\\", ch>>
                    /\ newTokens = newErrors

\* the C scanner has read the unclosed string "\i to the end: the first of
\* its two errors is the unrecognized escape's, its value the two characters
C30_Witness ==
    /\ lang = "c"
    /\ pc = "done"
    /\ source = <<"\"", "\\", "i">>
    /\ Len(result.errors) = 2
    /\ result.errors[1].message = EscMsgBad
    /\ result.errors[1].value = <<"\\", "i">>

\* the operator table of the running scanner
OperatorTable ==
    IF lang = "c" THEN C_OPERATORS
    ELSE IF lang = "cpp" THEN ALL_CPP_OPERATORS
    ELSE PY_OPERATORS

\* the input from the cursor on
Remaining == SubSeq(source, pos + 1, Len(source))

IsPrefix(a, b) == Len(a) <= Len(b) /\ SubSeq(b, 1, Len(a)) = a

\* C31: an OPERATOR token appended by a scanner step is an entry of that
\* scanner's operator table, a prefix of the input remaining where the step
\* started, and no entry of the table that is also a prefix of that input
\* is longer.
C31_LongestOperator ==
    [][\A i \in (Len(tokens) + 1)..Len(tokens') :
          tokens'[i].type = OPERATOR =>
              LET op == tokens'[i].value IN
              /\ \E k \in 1..Len(OperatorTable) : OperatorTable[k] = op
              /\ IsPrefix(op, Remaining)
              /\ \A k \in 1..Len(OperatorTable) :
                    IsPrefix(OperatorTable[k], Remaining) => Len(OperatorTable[k]) <= Len(op)]_vars

\* the C++ scanner has returned ->* as one operator, where -> and - are
\* entries of the table too
C31_Witness ==
    /\ lang = "cpp"
    /\ pc = "done"
    /\ source = <<"-", ">", "*">>
    /\ Len(result.tokens) = 1
    /\ result.tokens[1].type = OPERATOR
    /\ result.tokens[1].value = <<"-", ">", "*">>

\* the bracket tokens of the returned stream, in order
IsBracketToken(t) == t.type = DELIMITER /\ t.value \in (openers \cup closers)

BracketTokens == SelectSeq(result.tokens, IsBracketToken)

\* the stack of open brackets after the first n bracket tokens, as indices
\* into BracketTokens: an opener is pushed, a closer takes the top off when
\* there is one
RECURSIVE OpenAfter(_)
OpenAfter(n) ==
    IF n = 0 THEN <<>>
    ELSE LET st == OpenAfter(n - 1) IN
         IF BracketTokens[n].value \in openers THEN Append(st, n)
         ELSE IF st = <<>> THEN <<>>
         ELSE SubSeq(st, 1, Len(st) - 1)

IsCheckerBracketError(e) ==
    e.message.text \in {"Unexpected - no matching", "Mismatched bracket",
                        "Unclosed - missing matching closing bracket"}

CheckerBracketErrors == SelectSeq(syntax_errors, IsCheckerBracketError)

\* how many errors of a text the checker returned at a token's place
ErrorsOn(text, tok) ==
    Cardinality({i \in 1..Len(CheckerBracketErrors) :
                    /\ CheckerBracketErrors[i].message.text = text
                    /\ CheckerBracketErrors[i].value = tok.value
                    /\ CheckerBracketErrors[i].line = tok.line
                    /\ CheckerBracketErrors[i].column = tok.column})

\* what a closer met: nothing, another kind of opener, or its own
Unexpected(n) == BracketTokens[n].value \in closers /\ OpenAfter(n - 1) = <<>>

Mismatched(n) ==
    /\ BracketTokens[n].value \in closers
    /\ OpenAfter(n - 1) # <<>>
    /\ BracketTokens[OpenAfter(n - 1)[Len(OpenAfter(n - 1))]].value # pairs(BracketTokens[n].value)

LeftOpen(n) == \E j \in 1..Len(OpenAfter(Len(BracketTokens))) : OpenAfter(Len(BracketTokens))[j] = n

\* C32: after either checker has run, a closer met with the stack empty has
\* exactly one 'Unexpected' error, a closer not matching the stack top has
\* exactly one 'Mismatched bracket' error, the top being taken off all the
\* same, a matching closer has none, every opener left on the stack at the
\* end has exactly one 'Unclosed' error at its own line and column, and the
\* bracket pass returns no other error.
C32_BracketStack ==
    pc = "checked" =>
        /\ \A n \in 1..Len(BracketTokens) :
              LET tok == BracketTokens[n] IN
              /\ ErrorsOn("Unexpected - no matching", tok) = (IF Unexpected(n) THEN 1 ELSE 0)
              /\ ErrorsOn("Mismatched bracket", tok) = (IF Mismatched(n) THEN 1 ELSE 0)
              /\ ErrorsOn("Unclosed - missing matching closing bracket", tok)
                    = (IF LeftOpen(n) THEN 1 ELSE 0)
        /\ Len(CheckerBracketErrors) =
              Cardinality({n \in 1..Len(BracketTokens) : Unexpected(n) \/ Mismatched(n) \/ LeftOpen(n)})

\* the C checker has run over ) ( ] [ : an unexpected closer, a closer that
\* takes another kind of opener off, an opener left open
C32_Witness ==
    /\ pc = "checked"
    /\ lang = "c"
    /\ source = <<")", "(", "]", "[">>
    /\ Len(CheckerBracketErrors) = 3
    /\ CheckerBracketErrors[1].message.text = "Unexpected - no matching"
    /\ CheckerBracketErrors[2].message.text = "Mismatched bracket"
    /\ CheckerBracketErrors[3].message.text = "Unclosed - missing matching closing bracket"
    /\ CheckerBracketErrors[3].column = 4

\* the width of the blanks and tabs from index k of the source on, a tab
\* counting four, and the index of the first character behind them
RECURSIVE WidthFrom(_)
WidthFrom(k) ==
    IF k > Len(source) THEN 0
    ELSE IF source[k] = " " THEN 1 + WidthFrom(k + 1)
    ELSE IF source[k] = "\t" THEN 4 + WidthFrom(k + 1)
    ELSE 0

RECURSIVE InkFrom(_)
InkFrom(k) ==
    IF k <= Len(source) /\ source[k] \in {" ", "\t"} THEN InkFrom(k + 1) ELSE k

\* the line at the cursor is blank, a comment, or the end of the input
NothingOnLine ==
    \/ InkFrom(pos + 1) > Len(source)
    \/ source[InkFrom(pos + 1)] \in {"\n", "\r", "#"}

\* how many levels at the top of a stack exceed a width
RECURSIVE LevelsAbove(_, _)
LevelsAbove(stack, w) ==
    IF stack # <<>> /\ stack[Len(stack)] > w
    THEN 1 + LevelsAbove(SubSeq(stack, 1, Len(stack) - 1), w)
    ELSE 0

TypesOf(recs) == [i \in 1..Len(recs) |-> recs[i].type]

\* C33: a call of the indentation handler with measured width w and stack
\* top t pushes w and appends one INDENT when w > t; when w < t it takes
\* off the levels above w, appends one DEDENT for each and then one
\* 'unindent does not match' ERROR exactly when the top it arrives at is
\* not w; it appends nothing when w = t; on a blank line, a comment line or
\* at the end of the input it changes neither the stack nor the stream.
C33_IndentationRule ==
    [][(lang = "python" /\ pc = "loop" /\ pc' = "scan") =>
          LET w == WidthFrom(pos + 1)
              t == indent_stack[Len(indent_stack)]
              new == Added(tokens, tokens')
              n == LevelsAbove(indent_stack, w)
              rest == SubSeq(indent_stack, 1, Len(indent_stack) - n)
          IN IF NothingOnLine THEN tokens' = tokens /\ indent_stack' = indent_stack
             ELSE IF w > t
             THEN /\ indent_stack' = Append(indent_stack, w)
                  /\ TypesOf(new) = <<INDENT>>
             ELSE IF w = t THEN tokens' = tokens /\ indent_stack' = indent_stack
             ELSE /\ indent_stack' = rest
                  /\ n >= 1
                  /\ Len(new) = n + (IF rest[Len(rest)] # w THEN 1 ELSE 0)
                  /\ \A i \in 1..n : new[i].type = DEDENT
                  /\ rest[Len(rest)] # w =>
                        new[n + 1].type = ERROR /\ new[n + 1].message = UnindentMsg]_vars

\* the handler has just taken two levels off for a line at width one and
\* reported that width as matching no outer level
C33_Witness ==
    /\ lang = "python"
    /\ pc = "scan"
    /\ indent_stack = <<0>>
    /\ Len(tokens) >= 3
    /\ tokens[Len(tokens)].message = UnindentMsg
    /\ tokens[Len(tokens) - 1].type = DEDENT
    /\ tokens[Len(tokens) - 2].type = DEDENT

\* the length of the run of x from index k of the source on
RECURSIVE RunOfX(_)
RunOfX(k) == IF k <= Len(source) /\ source[k] = "x" THEN 1 + RunOfX(k + 1) ELSE 0

\* the source starts with R" , a delimiter of x and the parenthesis
DelimiterLength == RunOfX(3)

StartsRaw ==
    /\ Len(source) >= 3 + DelimiterLength
    /\ SubSeq(source, 1, 2) = <<"R", "\"">>
    /\ source[3 + DelimiterLength] = "("

ClosingSequence == <<")">> \o Xs(DelimiterLength) \o <<"\"">>

\* the index behind the first closing sequence after the parenthesis, 0 if
\* there is none
ClosedBehind ==
    LET ends == {i \in (4 + DelimiterLength)..Len(source) :
                    /\ i + Len(ClosingSequence) - 1 <= Len(source)
                    /\ SubSeq(source, i, i + Len(ClosingSequence) - 1) = ClosingSequence}
    IN IF ends = {} THEN 0
       ELSE (CHOOSE i \in ends : \A j \in ends : i <= j) + Len(ClosingSequence) - 1

WithText(recs, text) == SelectSeq(recs, LAMBDA r : r.message.text = text)

StringAtStart(recs) ==
    \E i \in 1..Len(recs) : recs[i].type = STRING_T /\ recs[i].line = 1 /\ recs[i].column = 1

\* C34: of a raw string R"delimiter( ... the C++ scanner accepts a delimiter
\* of up to 16 characters: closed by )delimiter" the literal is one STRING
\* token and draws no error; a delimiter of more than 16 characters draws
\* exactly one 'delimiter too long' ERROR; a literal whose closing sequence
\* does not come before the end of input draws exactly one 'Unterminated
\* raw string literal' ERROR; in both error cases there is no STRING token
\* for the literal.
C34_RawStringDelimiter ==
    (lang = "cpp" /\ Returned /\ StartsRaw) =>
        IF DelimiterLength > 16
        THEN /\ Len(WithText(result.errors, "Raw string delimiter too long (max 16 characters)")) = 1
             /\ result.tokens[1].type = ERROR
             /\ ~StringAtStart(result.tokens)
        ELSE IF ClosedBehind = 0
        THEN /\ Len(WithText(result.errors, "Unterminated raw string literal")) = 1
             /\ Len(result.errors) = 1
             /\ Len(result.tokens) = 1
             /\ result.tokens[1].type = ERROR
        ELSE /\ result.errors = <<>>
             /\ result.tokens[1].type = STRING_T
             /\ result.tokens[1].value = SubSeq(source, 1, ClosedBehind)

\* a raw string with a delimiter of 17 characters has been scanned and
\* the error for its length returned
C34_Witness ==
    /\ lang = "cpp"
    /\ pc = "done"
    /\ StartsRaw
    /\ DelimiterLength = 17
    /\ Len(WithText(result.errors, "Raw string delimiter too long (max 16 characters)")) = 1

\* the longest run of letters, digits and underscores from index k of the
\* source on
RECURSIVE WordRun(_)
WordRun(k) ==
    IF k <= Len(source) /\ (isalnum(source[k]) \/ source[k] = "_")
    THEN <<source[k]>> \o WordRun(k + 1)
    ELSE <<>>

\* the identifier-shaped run at index k: it starts with a letter or an
\* underscore
IdentifierRun(k) ==
    IF k <= Len(source) /\ (isalpha(source[k]) \/ source[k] = "_") THEN WordRun(k) ELSE <<>>

\* the numeric rule of the dispatchers applies at the cursor
NumberAhead ==
    /\ pos < Len(source)
    /\ \/ isdigit(source[pos + 1])
       \/ source[pos + 1] = "." /\ pos + 1 < Len(source) /\ isdigit(source[pos + 2])

\* C35: where the C reader makes an INTEGER or FLOAT token of the numeric
\* literal at the cursor, the step of the C++ scanner appends that one
\* token with the identifier-shaped run behind the literal appended to its
\* value and its type as it was, and leaves the cursor behind the run, so
\* that no token of its own is made of the run.
C35_LiteralSuffix ==
    [][(lang = "cpp" /\ pc = "loop" /\ NumberAhead) =>
          LET c == c_read_number(Lexer, line, col)
              literal == Added(tokens, c.tokens)
          IN (~c.spin /\ Len(literal) = 1 /\ literal[1].type \in {INTEGER, FLOAT}) =>
                LET run == IdentifierRun(c.pos + 1) IN
                /\ tokens' = Append(tokens, [literal[1] EXCEPT !.value = @ \o run])
                /\ pos' = c.pos + Len(run)
                /\ errors' = errors]_vars

\* 1if; has been scanned: one INTEGER token 1if and the semicolon, no
\* KEYWORD token
C35_Witness ==
    /\ lang = "cpp"
    /\ pc = "done"
    /\ source = <<"1", "i", "f", ";">>
    /\ Len(result.tokens) = 2
    /\ result.tokens[1].type = INTEGER
    /\ result.tokens[1].value = <<"1", "i", "f">>

\* The decimal literal at the head of the source, part by part: the
\* digits, a point not followed by another with the digits behind it, the
\* exponent marker with its digits, the suffix letters.
IntegerDigits == RunLength(source, Digits, Len(source))

HasFraction ==
    /\ IntegerDigits + 2 <= Len(source)
    /\ source[IntegerDigits + 1] = "."
    /\ source[IntegerDigits + 2] # "."

BehindFraction ==
    IF HasFraction
    THEN IntegerDigits + 1 + RunLength(Drop(source, IntegerDigits + 1), Digits, Len(source))
    ELSE IntegerDigits

ExponentMarker ==
    BehindFraction < Len(source) /\ source[BehindFraction + 1] \in {"e", "E"}

ExponentDigits ==
    IF ExponentMarker THEN RunLength(Drop(source, BehindFraction + 1), Digits, Len(source)) ELSE 0

BehindExponent == IF ExponentMarker THEN BehindFraction + 1 + ExponentDigits ELSE BehindFraction

FloatSuffix ==
    \E k \in 1..RunLength(Drop(source, BehindExponent), {"u", "U", "l", "L", "f", "F"}, Len(source)) :
        source[BehindExponent + k] \in {"f", "F"}

\* a decimal literal with a leading zero stands at the head of the source,
\* its exponent, if it has one, with digits
LeadingZeroLiteral ==
    /\ IntegerDigits >= 1
    /\ source[1] = "0"
    /\ ExponentMarker => ExponentDigits >= 1

IsFloatLiteral == HasFraction \/ ExponentMarker \/ FloatSuffix

OctalMsg == Msg(CTag, "Invalid octal literal - digits 8 or 9 are not valid in octal")

\* C36: of a decimal literal with a leading zero the C scanner returns an
\* invalid-octal ERROR and no INTEGER token when the literal is not a float
\* and holds an 8 or a 9, and a FLOAT token without that error when the
\* literal has a fraction, an exponent or a suffix f or F.
C36_LeadingZero ==
    (lang = "c" /\ Returned /\ LeadingZeroLiteral) =>
        /\ (~IsFloatLiteral /\ \E k \in 1..IntegerDigits : source[k] \in {"8", "9"}) =>
              /\ result.tokens[1].type = ERROR
              /\ result.tokens[1].message = OctalMsg
              /\ \A i \in 1..Len(result.tokens) :
                    result.tokens[i].type = INTEGER => result.tokens[i].column > IntegerDigits
        /\ IsFloatLiteral =>
              /\ result.tokens[1].type = FLOAT
              /\ \A i \in 1..Len(result.errors) :
                    result.errors[i].message = OctalMsg => result.errors[i].column > 1

\* 08; has been scanned and the invalid-octal error returned for it
C36_Witness ==
    /\ lang = "c"
    /\ pc = "done"
    /\ source = <<"0", "8", ";">>
    /\ Len(result.errors) = 1
    /\ result.errors[1].message = OctalMsg
    /\ result.errors[1].value = <<"0", "8">>

\* C37: the scores returned by detect_and_explain() are those the language
\* was chosen from: no reported score exceeds the detected language's, and
\* a language other than 'unknown' has a positive reported score.
C37_ScoresExplainResult ==
    (pc = "explained" /\ detection.language # "unknown") =>
        /\ \A l \in {"cpp", "c", "python"} :
              detection.scores[l] <= detection.scores[detection.language]
        /\ detection.scores[detection.language] > 0

\* C38: in every state of a Python scan the INDENT tokens emitted exceed
\* the DEDENT tokens emitted by the height of the indentation stack above
\* its bottom entry; once tokenize() has returned, the stack is [0] and
\* the returned stream holds as many INDENT as DEDENT tokens, inconsistent
\* dedents included.
C38_IndentBalance ==
    lang = "python" =>
        /\ CountType(tokens, INDENT) - CountType(tokens, DEDENT) = Len(indent_stack) - 1
        /\ Returned =>
              /\ indent_stack = <<0>>
              /\ CountType(result.tokens, INDENT) = CountType(result.tokens, DEDENT)

\* a scan with two blocks opened and a dedent to no outer level has returned
C38_Witness ==
    /\ lang = "python"
    /\ pc = "done"
    /\ CountType(result.tokens, INDENT) = 2
    /\ CountType(result.tokens, DEDENT) = 2
    /\ \E i \in 1..Len(result.errors) : result.errors[i].message = UnindentMsg

\* the size of the stack check_python_syntax is left with after the
\* stream scanned so far: it returns one 'Unclosed' error per entry
CheckerStackSize ==
    Len(WithText(BracketMatching(SelectSeq(tokens, NotComment), 1, <<>>, <<>>, PyTag),
                 "Unclosed - missing matching closing bracket"))

\* value, line and column of the records of a list
Places(recs) == [i \in 1..Len(recs) |-> <<recs[i].value, recs[i].line, recs[i].column>>]

\* C39: in every state of a Python scan the scanner's bracket depth is the
\* size of the checker's bracket stack after the tokens emitted so far;
\* and the closing brackets the scanner reports as 'Unmatched closing
\* bracket' are those the checker reports as 'Unexpected', one for one,
\* with the same line and column.
C39_DepthIsStackSize ==
    lang = "python" =>
        /\ paren_depth = CheckerStackSize
        /\ pc = "checked" =>
              Places(WithText(result.errors, "Unmatched closing bracket"))
                  = Places(WithText(syntax_errors, "Unexpected - no matching"))

\* ( ] ) has been scanned and checked: the square bracket took the round
\* one off the stack, and both scanner and checker report the last closer
C39_Witness ==
    /\ lang = "python"
    /\ pc = "checked"
    /\ source = <<"(", "]", ")">>
    /\ Len(WithText(syntax_errors, "Mismatched bracket")) = 1
    /\ Places(WithText(result.errors, "Unmatched closing bracket")) = << <<<<")">>, 1, 3>> >>
    /\ Places(WithText(syntax_errors, "Unexpected - no matching")) = << <<<<")">>, 1, 3>> >>

====
